---- MODULE Spec2Model ----
(***************************************************************************)
(* Verification model of the TopScore scorecard extraction engine.         *)
(*                                                                         *)
(* Several specifications share this module:                                  *)
(*   Spec          analyzeWithAdaptiveOcr (lib/adaptiveOcr.ts): layout     *)
(*                 probe, three concurrent strategies, fail-soft join,     *)
(*                 best-result selection.                                  *)
(*   SpecNotation  detectNotationStyle and the cell conversion applied to  *)
(*                 one collection of tokens (lib/scoreNotation.ts).        *)
(*   SpecTable     the player-row part of parseTableToScorecard            *)
(*                 (lib/textractOcr.ts) on a grid of two rows.             *)
(*   SpecMerge     SpecTable followed by one of the two gap-filling merges *)
(*                 (lib/hybridOcr.ts enhanceWithVision, lib/adaptiveOcr.ts *)
(*                 tryHybridApproach).                                     *)
(*   SpecScenario  the reference row of the integration test, classified   *)
(*                 and converted on the pars of its scorecard.             *)
(*   SpecValidate  validateScorecard (lib/adaptiveOcr.ts) on one scorecard *)
(*                 and on the same scorecard with one more score.          *)
(*   SpecCleanup   cleanupExtractedData (lib/cleanupOcr.ts) on one         *)
(*                 candidate scorecard, and once more on its result.       *)
(*   SpecLimit     the rate limiter of the API middleware: one followed    *)
(*                 client, a crowd of other clients, and the clock.        *)
(*   SpecPage      the scorecard page: first analysis, score and name      *)
(*                 edits, and the merge of a second upload.                *)
(*   SpecRows      SpecTable on grids whose rows carry metadata labels.    *)
(*   SpecGrid      the whole of parseTableToScorecard on tables with hole  *)
(*                 row, par rows, yardage rows and a player row.           *)
(* Text is modelled as sequences of one-character strings so that the      *)
(* regular expressions and parseInt of the source are computed, not        *)
(* assumed.                                                                *)
(***************************************************************************)
EXTENDS Integers, Sequences, FiniteSets, TLC

VARIABLES
    pc,          \* position of analyzeWithAdaptiveOcr
    layout,      \* LayoutAnalysis returned by detectLayout
    strat,       \* per strategy: the promise handed to Promise.allSettled
    invoked,     \* per strategy: number of times it has been called
    results,     \* OcrResult[] after the fulfilled/usable filter
    returned,    \* the scorecard analyzeWithAdaptiveOcr returned
    thrown,      \* errors that propagated out of analyzeWithAdaptiveOcr
    order,       \* history: the strategies in the order in which they settled
    ntoks,       \* SpecNotation: the token collection of one row
    nresult,     \* SpecNotation: detected style and converted scores
    rows,        \* SpecTable/SpecMerge: candidate player rows of the grid (label, hole cells)
    structure,   \* result of parseTableToScorecard (a scorecard or an error)
    interp,      \* history: per player and hole, the notation branch that converted the cell
    vision,      \* the handwriting pass's parsed answer
    enhanced,    \* result of enhanceWithVision (lib/hybridOcr.ts)
    merged,      \* result of the merge in tryHybridApproach (lib/adaptiveOcr.ts)
    vcard,       \* SpecValidate: the scorecard handed to validateScorecard
    vlayout,     \* SpecValidate: the layout handed to validateScorecard
    vscore,      \* SpecValidate: the validation score returned
    vprev,       \* SpecValidate: scorecard and score before one more score was added
    cin,         \* SpecCleanup: the scorecard handed to cleanupExtractedData
    cout,        \* SpecCleanup: the scorecard cleanupExtractedData returned
    cagain,      \* SpecCleanup: the result of cleanupExtractedData applied to cout
    lmap,        \* SpecLimit: rateLimitMap restricted to the observed keys
    lothers,     \* SpecLimit: number of entries of rateLimitMap under other keys
    lnow,        \* SpecLimit: Date.now(), in ms since the start
    lhist,       \* history: per observed key, start of its window and requests allowed in it
    lresp,       \* SpecLimit: key and status of the last response
    lsteps,      \* SpecLimit: number of clock advances so far
    ecard,       \* SpecPage: the scorecard state of the page and its editor
    elast,       \* history: the last handler that ran, its arguments and the scorecard before it
    mergeError,  \* SpecPage: the merge error message shown (<<>>: none)
    eops,        \* SpecPage: number of handlers run so far
    grid,        \* SpecGrid: the rows of the table handed to parseTableToScorecard
    gout         \* SpecGrid: what parseTableToScorecard found and returned or threw

runnerVars == <<pc, layout, strat, invoked, results, returned, thrown, order>>
notationVars == <<ntoks, nresult>>
tableVars == <<rows, structure, interp, vision, enhanced, merged>>
validateVars == <<vcard, vlayout, vscore, vprev>>
cleanupVars == <<cin, cout, cagain>>

limitVars == <<lmap, lothers, lnow, lhist, lresp, lsteps>>
pageVars == <<ecard, elast, mergeError, eops>>
gridVars == <<grid, gout>>
vars == <<runnerVars, notationVars, tableVars, validateVars, cleanupVars, limitVars, pageVars, gridVars>>

None == [none |-> TRUE]

Max(a, b) == IF a > b THEN a ELSE b
Abs(a) == IF a < 0 THEN -a ELSE a

(***************************************************************************)
(* Bounds of the strategy-runner model.                                    *)
(***************************************************************************)
MaxPlayersR == 1   \* a strategy's scorecard has 0..MaxPlayersR players
MaxPenalty  == 2   \* content penalties of validateScorecard range over 0..MaxPenalty

(***************************************************************************)
(* Strategies in the order they are passed to Promise.allSettled, and      *)
(* their fixed base confidences (x100).                                    *)
(***************************************************************************)
StrategyOrder == <<"vision-first", "textract-first", "hybrid">>
Strategies == {StrategyOrder[i] : i \in 1..Len(StrategyOrder)}

ConfVisionFirst   == 70
ConfTextractFirst == 80
ConfHybrid        == 85

BaseConfidence(s) ==
    CASE s = "vision-first"   -> ConfVisionFirst
      [] s = "textract-first" -> ConfTextractFirst
      [] s = "hybrid"         -> ConfHybrid

DefaultHoleCount == 9

\* detectLayout: the catch block's defaults (parse failure).
DefaultLayout ==
    [type |-> "unknown", holeCount |-> DefaultHoleCount, hasOutInTotal |-> FALSE,
     hasPlayerInitials |-> FALSE, rowOriented |-> TRUE, confidence |-> 30]

\* detectLayout: a parsed answer (holeCount 9 or 18).
ParsedLayout(hc) ==
    [type |-> IF hc = 18 THEN "standard-18" ELSE "standard-9", holeCount |-> hc,
     hasOutInTotal |-> FALSE, hasPlayerInitials |-> FALSE, rowOriented |-> TRUE,
     confidence |-> 80]

\* Hole counts a cleaned scorecard of a strategy can have in this model.
HoleCounts == {0, 9}

\* The scorecard of a strategy, reduced to what the runner reads (the two
\* lengths) and to its origin.
Scorecard(s, np, nh) == [origin |-> s, nPlayers |-> np, nHoles |-> nh]

\* validateScorecard as the runner sees it: the hole-count and no-player
\* penalties are computed, the content penalties are the input `other`.
ValidationScore(sc, lay, other) ==
    Max(0, 100 - 10 * Abs(sc.nHoles - lay.holeCount)
               - (IF sc.nPlayers = 0 THEN 50 ELSE 0) - other)

OcrResult(s, sc, lay, other) ==
    [scorecard |-> sc, strategy |-> s, confidence |-> BaseConfidence(s),
     validationScore |-> ValidationScore(sc, lay, other)]

RunnerInit ==
    /\ pc = "layout"
    /\ layout = None
    /\ strat = [s \in Strategies |-> [status |-> "idle"]]
    /\ invoked = [s \in Strategies |-> 0]
    /\ results = <<>>
    /\ returned = None
    /\ thrown = <<>>
    /\ order = <<>>

NotationIdle == ntoks = <<>> /\ nresult = None
ValidateIdle == vcard = None /\ vlayout = None /\ vscore = None /\ vprev = None
CleanupIdle == cin = None /\ cout = None /\ cagain = None
GridIdle == grid = None /\ gout = None
PageIdle == ecard = None /\ elast = None /\ mergeError = <<>> /\ eops = 0
LimitIdle == lmap = None /\ lothers = 0 /\ lnow = 0 /\ lhist = None /\ lresp = None /\ lsteps = 0
TableIdle ==
    /\ rows = <<>>
    /\ structure = None
    /\ interp = <<>>
    /\ vision = None
    /\ enhanced = None
    /\ merged = None

\* detectLayout returns a parsed layout.
DetectLayoutParsed ==
    /\ pc = "layout"
    /\ \E hc \in {9, 18} : layout' = ParsedLayout(hc)
    /\ pc' = "launch"
    /\ UNCHANGED <<gridVars, pageVars, limitVars, validateVars, cleanupVars, notationVars, tableVars, strat, invoked, results, returned, thrown, order>>

\* detectLayout: JSON.parse throws inside the try block.
DetectLayoutDefault ==
    /\ pc = "layout"
    /\ layout' = DefaultLayout
    /\ pc' = "launch"
    /\ UNCHANGED <<gridVars, pageVars, limitVars, validateVars, cleanupVars, notationVars, tableVars, strat, invoked, results, returned, thrown, order>>

\* detectLayout: the key lookup or the API call (outside the try) throws.
DetectLayoutThrows ==
    /\ pc = "layout"
    /\ pc' = "failed"
    /\ thrown' = Append(thrown, "layout-error")
    /\ UNCHANGED <<gridVars, pageVars, limitVars, validateVars, cleanupVars, notationVars, tableVars, layout, strat, invoked, results, returned, order>>

\* Promise.allSettled([tryVisionFirst(..), tryTextractFirst(..), tryHybridApproach(..)])
\* calls each strategy once.
LaunchStrategies ==
    /\ pc = "launch"
    /\ strat' = [s \in Strategies |-> [status |-> "pending"]]
    /\ invoked' = [s \in Strategies |-> invoked[s] + 1]
    /\ pc' = "join"
    /\ UNCHANGED <<gridVars, pageVars, limitVars, validateVars, cleanupVars, notationVars, tableVars, layout, results, returned, thrown, order>>

\* A strategy's promise fulfils with an OcrResult.
StrategyFulfils(s) ==
    /\ pc = "join"
    /\ strat[s].status = "pending"
    /\ \E np \in 0..MaxPlayersR, nh \in HoleCounts, other \in 0..MaxPenalty :
         strat' = [strat EXCEPT ![s] =
                     [status |-> "fulfilled",
                      value |-> OcrResult(s, Scorecard(s, np, nh), layout, other)]]
    /\ order' = Append(order, s)
    /\ UNCHANGED <<gridVars, pageVars, limitVars, validateVars, cleanupVars, notationVars, tableVars, pc, layout, invoked, results, returned, thrown>>

\* A strategy's promise rejects (a backend error, a parse error, no table..).
StrategyRejects(s) ==
    /\ pc = "join"
    /\ strat[s].status = "pending"
    /\ strat' = [strat EXCEPT ![s] = [status |-> "rejected"]]
    /\ order' = Append(order, s)
    /\ UNCHANGED <<gridVars, pageVars, limitVars, validateVars, cleanupVars, notationVars, tableVars, pc, layout, invoked, results, returned, thrown>>

\* Promise.allSettled resolves when no promise is pending any more; the variant
\* before it resolves with the first promise that settles.
AllSettledAny == \E s \in Strategies : strat[s].status \in {"fulfilled", "rejected"}
AllSettled == \A s \in Strategies : strat[s].status \in {"fulfilled", "rejected"}

\* .filter(result => result.scorecard.players.length > 0 && result.scorecard.holes.length > 0);
\* the variant before it leaves the hole test out.
UsablePlayersOnly(r) == r.scorecard.nPlayers > 0
Usable(r) == r.scorecard.nPlayers > 0 /\ r.scorecard.nHoles > 0

\* Step 3: the fulfilled results, in strategy order, that are usable.
CollectResults ==
    LET settledSeq == [i \in 1..Len(StrategyOrder) |-> strat[StrategyOrder[i]]]
        IsFulfilled(p) == p.status = "fulfilled"
        fulfilled == SelectSeq(settledSeq, IsFulfilled)
        values == [i \in 1..Len(fulfilled) |-> fulfilled[i].value]
    IN SelectSeq(values, Usable)

\* The reducer of Step 4; the variant before it is the reducer without the
\* confidence tie-break.
PickBestByScoreOnly(best, current) ==
    IF current.validationScore > best.validationScore THEN current ELSE best
PickBest(best, current) ==
    IF Abs(current.validationScore - best.validationScore) < 1
    THEN (IF current.confidence > best.confidence THEN current ELSE best)
    ELSE (IF current.validationScore > best.validationScore THEN current ELSE best)

\* Array.prototype.reduce without an initial value.
RECURSIVE ReduceFrom(_, _)
ReduceFrom(best, rest) ==
    IF rest = <<>> THEN best ELSE ReduceFrom(PickBest(best, Head(rest)), Tail(rest))
Reduce(seq) == ReduceFrom(Head(seq), Tail(seq))

\* Steps 3 and 4 after the join, no usable result: throw the aggregate error.
SelectFails ==
    /\ pc = "join"
    /\ AllSettled
    /\ CollectResults = <<>>
    /\ results' = CollectResults
    /\ thrown' = Append(thrown, "all-strategies-failed")
    /\ pc' = "failed"
    /\ UNCHANGED <<gridVars, pageVars, limitVars, validateVars, cleanupVars, notationVars, tableVars, layout, strat, invoked, returned, order>>

\* Steps 3 and 4 after the join: return the best result's scorecard.
SelectBest ==
    /\ pc = "join"
    /\ AllSettled
    /\ CollectResults # <<>>
    /\ results' = CollectResults
    /\ returned' = Reduce(CollectResults).scorecard
    /\ pc' = "returned"
    /\ UNCHANGED <<gridVars, pageVars, limitVars, validateVars, cleanupVars, notationVars, tableVars, layout, strat, invoked, thrown, order>>

Init == RunnerInit /\ NotationIdle /\ TableIdle /\ ValidateIdle /\ CleanupIdle /\ LimitIdle /\ PageIdle /\ GridIdle

Next ==
    \/ DetectLayoutParsed
    \/ DetectLayoutDefault
    \/ DetectLayoutThrows
    \/ LaunchStrategies
    \/ \E s \in Strategies : StrategyFulfils(s)
    \/ \E s \in Strategies : StrategyRejects(s)
    \/ SelectFails
    \/ SelectBest

Spec == Init /\ [][Next]_vars

(***************************************************************************)
(* Claims about the strategy runner (specification Spec).                  *)
(***************************************************************************)
Finished == pc \in {"returned", "failed"}

\* A strategy that produced nothing usable: it raised, or its scorecard has
\* no player or no hole.
Unusable(s) ==
    \/ strat[s].status = "rejected"
    \/ /\ strat[s].status = "fulfilled"
       /\ \/ strat[s].value.scorecard.nPlayers = 0
          \/ strat[s].value.scorecard.nHoles = 0

\* C2: if every strategy raises or yields a scorecard with no player or no
\* hole, analyzeWithAdaptiveOcr raises exactly one aggregate error and returns
\* nothing; whenever it returns, the scorecard has at least one player and at
\* least one hole and no error was raised.
C2_AggregateErrorOrUsableScorecard ==
    /\ (Finished /\ (\A s \in Strategies : Unusable(s))
          => thrown = <<"all-strategies-failed">> /\ returned = None)
    /\ (pc = "returned"
          => /\ returned # None
             /\ returned.nPlayers >= 1
             /\ returned.nHoles >= 1
             /\ thrown = <<>>)
    /\ (returned # None => pc = "returned")

\* C2 witness: the aggregate error was raised although one strategy fulfilled
\* (with a scorecard that has players but no holes).
C2_Witness ==
    /\ pc = "failed"
    /\ thrown = <<"all-strategies-failed">>
    /\ \E s \in Strategies :
         /\ strat[s].status = "fulfilled"
         /\ strat[s].value.scorecard.nPlayers > 0
         /\ strat[s].value.scorecard.nHoles = 0

\* The candidates: the fulfilled, usable results.
Candidates ==
    {strat[s].value : s \in {t \in Strategies : strat[t].status = "fulfilled" /\ ~Unusable(t)}}

C4_SelectAfterAllSettled ==
    /\ (pc \in {"returned", "failed"} /\ (\E s \in Strategies : invoked[s] > 0)
          => \A s \in Strategies : strat[s].status \in {"fulfilled", "rejected"})
    /\ \A s \in Strategies : invoked[s] <= 1
    /\ \A i \in 1..Len(results) : strat[results[i].strategy].status = "fulfilled"
    /\ (pc = "returned" => strat[returned.origin].status = "fulfilled")
    /\ (pc \in {"returned", "failed"} /\ (\E s \in Strategies : invoked[s] > 0)
          => \A s \in Strategies :
               (strat[s].status = "fulfilled" /\ ~Unusable(s))
                  => \E i \in 1..Len(results) : results[i] = strat[s].value)

\* C4 witness: a scorecard was returned although one strategy threw, and the
\* strategy that threw settled before one that fulfilled did not stop it.
C4_Witness ==
    /\ pc = "returned"
    /\ \E s \in Strategies : strat[s].status = "rejected"
    /\ \E s \in Strategies : strat[s].status = "fulfilled" /\ returned = strat[s].value.scorecard
    /\ Len(results) = 2

\* C13: the layout probe is advisory: whether the layout call raises or its
\* answer cannot be parsed, analyzeWithAdaptiveOcr goes on with a layout (the
\* default one: 9 holes, row-oriented, no summary columns, no initials) and
\* runs the strategies; no error of the probe leaves the pipeline.
C13_LayoutProbeAdvisory ==
    /\ \A i \in 1..Len(thrown) : thrown[i] # "layout-error"
    /\ (pc # "layout" => layout # None)
    /\ (Finished => \A s \in Strategies : invoked[s] = 1)

(***************************************************************************)
(* Text: a string is a sequence of one-character strings.                  *)
(***************************************************************************)
DigitChars == <<"0", "1", "2", "3", "4", "5", "6", "7", "8", "9">>
IsDigit(c) == \E i \in 1..Len(DigitChars) : DigitChars[i] = c
DigitVal(c) == (CHOOSE i \in 1..Len(DigitChars) : DigitChars[i] = c) - 1
IsSpace(c) == c = " "

\* JavaScript null / undefined for a token.
NullTok == <<"null">>
\* score: number | null, as an option: <<>> is null, <<n>> is the number n.
NullScore == <<>>
Some(n) == <<n>>

RECURSIVE TrimLeft(_)
TrimLeft(t) == IF t # <<>> /\ IsSpace(Head(t)) THEN TrimLeft(Tail(t)) ELSE t
RECURSIVE TrimRight(_)
TrimRight(t) ==
    IF t # <<>> /\ IsSpace(t[Len(t)]) THEN TrimRight(SubSeq(t, 1, Len(t) - 1)) ELSE t
\* String.prototype.trim
Trim(t) == TrimRight(TrimLeft(t))

\* /^\d+$/
AllDigits(t) == t # <<>> /\ \A i \in 1..Len(t) : IsDigit(t[i])
\* /^[+-]\d+$/
MatchSignedInt(t) == Len(t) >= 2 /\ t[1] \in {"+", "-"} /\ AllDigits(Tail(t))
\* /^[+-]?\d+$/
MatchInt(t) == AllDigits(t) \/ MatchSignedInt(t)
\* /^e$/i
MatchE(t) == t = <<"E">> \/ t = <<"e">>

RECURSIVE DigitsValue(_)
DigitsValue(t) ==
    IF t = <<>> THEN 0
    ELSE 10 * DigitsValue(SubSeq(t, 1, Len(t) - 1)) + DigitVal(t[Len(t)])

RECURSIVE LeadingDigits(_)
LeadingDigits(t) ==
    IF t # <<>> /\ IsDigit(Head(t)) THEN <<Head(t)>> \o LeadingDigits(Tail(t)) ELSE <<>>

\* parseInt(str, 10): leading blanks skipped, an optional sign, then the
\* longest run of digits; NaN when there is no digit.
NaN == [nan |-> TRUE]
Num(n) == [nan |-> FALSE, val |-> n]
ParseInt(t) ==
    LET s == TrimLeft(t)
        signed == s # <<>> /\ Head(s) \in {"+", "-"}
        body == IF signed THEN Tail(s) ELSE s
        ds == LeadingDigits(body)
    IN IF ds = <<>> THEN NaN
       ELSE IF signed /\ Head(s) = "-" THEN Num(0 - DigitsValue(ds))
       ELSE Num(DigitsValue(ds))

(***************************************************************************)
(* lib/scoreNotation.ts                                                    *)
(***************************************************************************)
IsRelativeToParNotation(scoreStr) ==
    IF scoreStr = NullTok \/ scoreStr = <<>> THEN FALSE
    ELSE LET trimmed == Trim(scoreStr)
         IN MatchSignedInt(trimmed) \/ MatchE(trimmed) \/ trimmed = <<"0">>

ConvertRelativeToGross(relativeStr, par) ==
    LET trimmed == Trim(relativeStr)
    IN IF MatchE(trimmed) THEN par
       ELSE IF trimmed = <<"0">> THEN par
       ELSE IF MatchSignedInt(trimmed)
            THEN (IF trimmed[1] = "+" THEN par + DigitsValue(Tail(trimmed))
                  ELSE par - DigitsValue(Tail(trimmed)))
       ELSE par

\* The branch of parseScoreToGross that produces the value of a token:
\* "null" (early return), "relative" (isRelativeToParNotation) or "gross".
ParseScoreToGrossBranch(scoreStr) ==
    IF scoreStr = NullTok THEN "null"
    ELSE LET str == Trim(scoreStr)
         IN IF str = <<>> \/ str = <<"-">> THEN "null"
            ELSE IF IsRelativeToParNotation(str) THEN "relative"
            ELSE "gross"

ParseScoreToGross(scoreStr, par) ==
    LET branch == ParseScoreToGrossBranch(scoreStr)
    IN IF branch = "null" THEN NullScore
       ELSE IF branch = "relative" THEN Some(ConvertRelativeToGross(Trim(scoreStr), par))
       ELSE LET gross == ParseInt(Trim(scoreStr))
            IN IF gross.nan THEN NullScore
               ELSE IF gross.val < 1 \/ gross.val > 20 THEN NullScore
               ELSE Some(gross.val)

RECURSIVE SumSeq(_)
SumSeq(q) == IF q = <<>> THEN 0 ELSE Head(q) + SumSeq(Tail(q))

\* The tokens the loop of detectNotationStyle does not skip, trimmed.
DetectConsidered(scores) ==
    LET Kept(sc) == sc # NullTok /\ Trim(sc) # <<>> /\ Trim(sc) # <<"-">>
        kept == SelectSeq(scores, Kept)
    IN [i \in 1..Len(kept) |-> Trim(kept[i])]

\* detectNotationStyle; the variant before it leaves the average out of the
\* statistical rule.
DetectNotationStylePerfectAverage(scores) ==
    LET strs == DetectConsidered(scores)
        hasExplicitRelative ==
            \E i \in 1..Len(strs) : MatchSignedInt(strs[i]) \/ MatchE(strs[i])
        IsNumber(str) == ~ParseInt(str).nan
        numStrs == SelectSeq(strs, IsNumber)
        scoreNumbers == [i \in 1..Len(numStrs) |-> ParseInt(numStrs[i]).val]
        validScoreCount == Len(scoreNumbers)
        allSmallNumbers == \A i \in 1..Len(scoreNumbers) : ~(scoreNumbers[i] >= 4)
    IN IF hasExplicitRelative THEN "relative"
       ELSE IF allSmallNumbers /\ validScoreCount >= 5 /\ validScoreCount >= 6
            THEN "relative"
       ELSE "gross"
DetectNotationStyle(scores) ==
    LET strs == DetectConsidered(scores)
        hasExplicitRelative ==
            \E i \in 1..Len(strs) : MatchSignedInt(strs[i]) \/ MatchE(strs[i])
        IsNumber(str) == ~ParseInt(str).nan
        numStrs == SelectSeq(strs, IsNumber)
        scoreNumbers == [i \in 1..Len(numStrs) |-> ParseInt(numStrs[i]).val]
        validScoreCount == Len(scoreNumbers)
        allSmallNumbers == \A i \in 1..Len(scoreNumbers) : ~(scoreNumbers[i] >= 4)
        \* avgScore < 2.5, in whole numbers: 2 * sum < 5 * count
        avgBelow == 2 * SumSeq(scoreNumbers) < 5 * validScoreCount
    IN IF hasExplicitRelative THEN "relative"
       ELSE IF allSmallNumbers /\ validScoreCount >= 5 /\ avgBelow /\ validScoreCount >= 6
            THEN "relative"
       ELSE "gross"

(***************************************************************************)
(* lib/textractOcr.ts, parseTableToScorecard: STEP 3, one cell.            *)
(***************************************************************************)
\* The pars of the holes: the first NumHoles / MaxTokens entries of the par
\* row of the reference scorecard of the integration test.
ScenarioPars == <<5, 4, 4, 4, 5, 3, 4, 3, 4>>

\* The notation under which a cell was converted ("none": no value read).
CellBranch(style, cellValue) ==
    IF cellValue = NullTok \/ cellValue = <<>> THEN "none"
    ELSE IF style = "relative" THEN "relative"
    ELSE ParseScoreToGrossBranch(cellValue)

\* The conversion of one raw cell under the scorecard-wide style; the variant
\* before it ignores the style and lets each token decide.
ConvertCellPerToken(style, cellValue, par) ==
    IF cellValue = NullTok \/ cellValue = <<>> THEN NullScore
    ELSE ParseScoreToGross(cellValue, par)
ConvertCell(style, cellValue, par) ==
    IF cellValue = NullTok \/ cellValue = <<>> THEN NullScore
    ELSE IF style = "relative"
         THEN LET num == ParseInt(cellValue)
              IN IF ~num.nan THEN Some(par + num.val)
                 ELSE ParseScoreToGross(cellValue, par)
    ELSE ParseScoreToGross(cellValue, par)

(***************************************************************************)
(* SpecNotation: one collection of tokens is built, then classified and    *)
(* converted (token i lies on hole i).                                     *)
(***************************************************************************)
MaxTokens == 6

\* The first token ranges over every kind of token; the later ones over the
\* kinds the counting rules of detectNotationStyle distinguish.
NotationTokens ==
    {NullTok, <<"-">>, <<"+", "1">>, <<"-", "1">>, <<"E">>, <<"e">>,
     <<"0">>, <<"2">>, <<"3">>, <<"4">>, <<"2", "0">>}
NotationMoreTokens == {NullTok, <<"-", "1">>, <<"2">>, <<"3">>, <<"4">>}

NotationInit ==
    /\ ntoks = <<>>
    /\ nresult = None

AddToken ==
    /\ nresult = None
    /\ Len(ntoks) < MaxTokens
    /\ \E t \in (IF ntoks = <<>> THEN NotationTokens ELSE NotationMoreTokens) :
         ntoks' = Append(ntoks, t)
    /\ UNCHANGED <<gridVars, pageVars, limitVars, validateVars, cleanupVars, runnerVars, tableVars, nresult>>

\* detectNotationStyle(allRawScores), then the conversion of every token
\* under the detected style.
Normalise ==
    /\ nresult = None
    /\ LET style == DetectNotationStyle(ntoks)
       IN nresult' = [style |-> style,
                      scores |-> [i \in 1..Len(ntoks) |->
                                    ConvertCell(style, ntoks[i], ScenarioPars[i])]]
    /\ UNCHANGED <<gridVars, pageVars, limitVars, validateVars, cleanupVars, runnerVars, tableVars, ntoks>>

InitNotation ==
    /\ NotationInit
    /\ TableIdle
    /\ ValidateIdle
    /\ CleanupIdle
    /\ pc = "idle" /\ layout = None /\ strat = <<>> /\ invoked = <<>>
    /\ results = <<>> /\ returned = None /\ thrown = <<>> /\ order = <<>>
    /\ LimitIdle
    /\ PageIdle
    /\ GridIdle

NextNotation == AddToken \/ Normalise

SpecNotation == InitNotation /\ [][NextNotation]_vars

(***************************************************************************)
(* Labels and names.                                                       *)
(***************************************************************************)
\* A string literal as a sequence of characters.
Str(lit) == [i \in 1..Len(lit) |-> SubSeq(lit, i, i)]

\* The element of a one-element set: `TheOnly({F(v) : v \in {e}})` is F(e)
\* with e evaluated once, as a `const` binding is.
TheOnly(S) == CHOOSE r \in S : TRUE

LowerOf ==
    [A |-> "a", B |-> "b", C |-> "c", D |-> "d", E |-> "e", F |-> "f", G |-> "g",
     H |-> "h", I |-> "i", J |-> "j", K |-> "k", L |-> "l", M |-> "m", N |-> "n",
     O |-> "o", P |-> "p", Q |-> "q", R |-> "r", S |-> "s", T |-> "t", U |-> "u",
     V |-> "v", W |-> "w", X |-> "x", Y |-> "y", Z |-> "z"]
IsUpper(c) == c \in DOMAIN LowerOf
IsLower(c) == \E u \in DOMAIN LowerOf : LowerOf[u] = c
LowerChar(c) == IF IsUpper(c) THEN LowerOf[c] ELSE c
\* String.prototype.toLowerCase
ToLower(t) == [i \in 1..Len(t) |-> LowerChar(t[i])]

StartsWith(t, w) == Len(t) >= Len(w) /\ SubSeq(t, 1, Len(w)) = w
\* String.prototype.includes
Includes(t, w) ==
    \E i \in 1..(Len(t) - Len(w) + 1) : SubSeq(t, i, i + Len(w) - 1) = w
\* /[a-z]/i.test
HasLetter(t) == \E i \in 1..Len(t) : IsUpper(t[i]) \/ IsLower(t[i])

RECURSIVE DropDigits(_)
DropDigits(t) == IF t # <<>> /\ IsDigit(Head(t)) THEN DropDigits(Tail(t)) ELSE t
RECURSIVE DropRatingChars(_)
DropRatingChars(t) ==
    IF t # <<>> /\ (IsDigit(Head(t)) \/ Head(t) \in {".", "/"})
    THEN DropRatingChars(Tail(t)) ELSE t

TeeColours ==
    {Str("black"), Str("blue"), Str("white"), Str("red"), Str("green"),
     Str("gold"), Str("brown"), Str("silver")}

\* /^:?\d+:\d+$/
MatchTime(t) ==
    LET a == IF t # <<>> /\ Head(t) = ":" THEN Tail(t) ELSE t
        b == DropDigits(a)
    IN /\ Len(b) < Len(a)
       /\ b # <<>> /\ Head(b) = ":"
       /\ AllDigits(Tail(b))

\* /^(colour...)\s+(m:|w:|\d)/i, the colours being those of `colours`
MatchTeeRow(t, colours) ==
    \E c \in colours :
       /\ StartsWith(ToLower(t), c)
       /\ LET rest == SubSeq(ToLower(t), Len(c) + 1, Len(t))
              after == TrimLeft(rest)
          IN /\ Len(after) < Len(rest)
             /\ \/ StartsWith(after, Str("m:"))
                \/ StartsWith(after, Str("w:"))
                \/ (after # <<>> /\ IsDigit(Head(after)))

\* /^m:\s*[\d./]+\s+(colour...)/i
MatchRatingThenTee(t) ==
    /\ StartsWith(ToLower(t), Str("m:"))
    /\ LET a == TrimLeft(SubSeq(ToLower(t), 3, Len(t)))
           b == DropRatingChars(a)
           c == TrimLeft(b)
       IN /\ Len(b) < Len(a)
          /\ Len(c) < Len(b)
          /\ \E col \in TeeColours : StartsWith(c, col)

\* /^\s*(colour...|combo)\s+(\d+\.\d+\/\d+|m\s+\d+)/i
MatchTeeRating(t) ==
    LET s == TrimLeft(ToLower(t))
    IN \E c \in TeeColours \cup {Str("combo")} :
         /\ StartsWith(s, c)
         /\ LET rest == SubSeq(s, Len(c) + 1, Len(s))
                after == TrimLeft(rest)
                d1 == DropDigits(after)
                d2 == IF d1 # <<>> /\ Head(d1) = "." THEN DropDigits(Tail(d1)) ELSE d1
                d3 == IF d2 # <<>> /\ Head(d2) = "/" THEN Tail(d2) ELSE <<>>
                m1 == IF after # <<>> /\ Head(after) = "m" THEN Tail(after) ELSE <<>>
                m2 == TrimLeft(m1)
            IN /\ Len(after) < Len(rest)
               /\ \/ /\ Len(d1) < Len(after)
                     /\ d1 # <<>> /\ Head(d1) = "."
                     /\ Len(d2) < Len(d1) - 1
                     /\ d2 # <<>> /\ Head(d2) = "/"
                     /\ d3 # <<>> /\ IsDigit(Head(d3))
                  \/ /\ Len(m2) < Len(m1)
                     /\ m2 # <<>> /\ IsDigit(Head(m2))

\* /^(ladies|men|mens|ladies')/i
MatchGenderPrefix(t) ==
    StartsWith(ToLower(t), Str("ladies")) \/ StartsWith(ToLower(t), Str("men"))

\* The label tests of the player-row loop: TRUE when the row is skipped as a
\* metadata row.
IsMetadataRow(name0, playerName) ==
    \E col0Label \in {ToLower(name0)}, playerNameLower \in {ToLower(playerName)} :
    LET Either(w) == Includes(playerNameLower, Str(w)) \/ Includes(col0Label, Str(w))
    IN \/ Either("total")
       \/ Either("score")
       \/ Either("handicap")
       \/ Either("hdcp")
       \/ playerNameLower = Str("par") \/ Includes(col0Label, Str("par"))
       \/ Either("pace of play")
       \/ Either("hole")
       \/ Either("yardage")
       \/ MatchTeeRow(playerName, TeeColours \cup {Str("combo")})
       \/ MatchRatingThenTee(playerName)
       \/ MatchGenderPrefix(playerName)
       \/ MatchTime(playerName)
       \/ MatchTeeRating(name0)

\* normalizePlayerName: lower case, trim, drop everything but [a-z0-9].
NormalizePlayerName(name) ==
    LET IsAlnum(c) == IsLower(c) \/ IsDigit(c)
    IN SelectSeq(Trim(ToLower(name)), IsAlnum)

(***************************************************************************)
(* lib/cleanupOcr.ts                                                       *)
(***************************************************************************)
\* Array.prototype.sort by holeNumber (stable): insertion of e into a sorted q
\* after the entries that are not greater.
RECURSIVE InsertByHole(_, _)
InsertByHole(e, q) ==
    IF q = <<>> THEN <<e>>
    ELSE IF Head(q).holeNumber <= e.holeNumber THEN <<Head(q)>> \o InsertByHole(e, Tail(q))
    ELSE <<e>> \o q
RECURSIVE SortByHole(_)
SortByHole(q) ==
    IF q = <<>> THEN <<>>
    ELSE TheOnly({InsertByHole(q[Len(q)], sorted) :
                     sorted \in {SortByHole(SubSeq(q, 1, Len(q) - 1))}})

\* The duplicate filter keeping the last entry of each hole number.
UniqueByHoleLastOccurrence(q) ==
    LET idx == {i \in 1..Len(q) : \A j \in (i + 1)..Len(q) : q[j].holeNumber # q[i].holeNumber}
        RECURSIVE Pick(_)
        Pick(i) == IF i > Len(q) THEN <<>>
                   ELSE IF i \in idx THEN <<q[i]>> \o Pick(i + 1) ELSE Pick(i + 1)
    IN Pick(1)
\* .filter((x, index, array) => array.findIndex(y => y.holeNumber === x.holeNumber) === index)
UniqueByHole(q) ==
    LET idx == {i \in 1..Len(q) : \A j \in 1..(i - 1) : q[j].holeNumber # q[i].holeNumber}
        RECURSIVE Pick(_)
        Pick(i) == IF i > Len(q) THEN <<>>
                   ELSE IF i \in idx THEN <<q[i]>> \o Pick(i + 1) ELSE Pick(i + 1)
    IN Pick(1)

\* The name test of the last filter of cleanupExtractedData.
IsNonPlayerName(name) ==
    LET lower == ToLower(name)
    IN \/ Includes(lower, Str("handicap"))
       \/ Includes(lower, Str("hcp"))
       \/ lower = Str("par")
       \/ Includes(lower, Str("pace of play"))
       \/ \E c \in TeeColours :
            /\ StartsWith(lower, c)
            /\ LET rest == SubSeq(lower, Len(c) + 1, Len(lower))
               IN Len(TrimLeft(rest)) < Len(rest)
                  /\ TrimLeft(rest) # <<>> /\ IsDigit(Head(TrimLeft(rest)))
       \/ MatchRatingThenTee(name)
       \/ MatchGenderPrefix(name)

\* The hole list with the truncation to 9 left out: only more than 18 holes
\* are cut.
CleanupHolesAboveEighteenOnly(holes) ==
    LET Valid(h) == ~(h.holeNumber < 1 \/ h.holeNumber > 18) /\ ~(h.par < 3 \/ h.par > 5)
        Limit(uniqueHoles) ==
            IF Len(uniqueHoles) > 18 THEN SubSeq(uniqueHoles, 1, 18) ELSE uniqueHoles
    IN TheOnly({Limit(u) : u \in {UniqueByHole(SortByHole(SelectSeq(holes, Valid)))}})
CleanupHoles(holes) ==
    LET Valid(h) == ~(h.holeNumber < 1 \/ h.holeNumber > 18) /\ ~(h.par < 3 \/ h.par > 5)
        Limit(uniqueHoles) ==
            IF Len(uniqueHoles) > 18 THEN SubSeq(uniqueHoles, 1, 18)
            ELSE IF Len(uniqueHoles) > 9 /\ Len(uniqueHoles) < 18 THEN SubSeq(uniqueHoles, 1, 9)
            ELSE uniqueHoles
    IN TheOnly({Limit(u) : u \in {UniqueByHole(SortByHole(SelectSeq(holes, Valid)))}})

\* The score filter taking every listed hole number for valid, whether the
\* hole was retained or not.
CleanupExtractedDataListedHoles(scorecard) ==
    LET Cleaned(finalHoles) ==
            LET validHoleNumbers == {scorecard.holes[i].holeNumber : i \in 1..Len(scorecard.holes)}
                KeepScore(e) ==
                    /\ e.holeNumber \in validHoleNumbers
                    /\ (e.score = NullScore \/ ~(e.score[1] < 1 \/ e.score[1] > 15))
                CleanPlayer(pl) ==
                    [pl EXCEPT !.scores =
                        UniqueByHole(SortByHole(SelectSeq(pl.scores, KeepScore)))]
                cleanedPlayers ==
                    [i \in 1..Len(scorecard.players) |-> CleanPlayer(scorecard.players[i])]
                IsPlayer(pl) == ~IsNonPlayerName(pl.name)
            IN [scorecard EXCEPT !.holes = finalHoles,
                                 !.players = SelectSeq(cleanedPlayers, IsPlayer)]
    IN TheOnly({Cleaned(fh) : fh \in {CleanupHoles(scorecard.holes)}})
\* holeNumber is declared a number (PlayerHoleScore), so the test for the
\* strings 'out', 'in', 'total' never applies.
CleanupExtractedData(scorecard) ==
    LET Cleaned(finalHoles) ==
            LET validHoleNumbers == {finalHoles[i].holeNumber : i \in 1..Len(finalHoles)}
                KeepScore(e) ==
                    /\ e.holeNumber \in validHoleNumbers
                    /\ (e.score = NullScore \/ ~(e.score[1] < 1 \/ e.score[1] > 15))
                CleanPlayer(pl) ==
                    [pl EXCEPT !.scores =
                        UniqueByHole(SortByHole(SelectSeq(pl.scores, KeepScore)))]
                cleanedPlayers ==
                    [i \in 1..Len(scorecard.players) |-> CleanPlayer(scorecard.players[i])]
                IsPlayer(pl) == ~IsNonPlayerName(pl.name)
            IN [scorecard EXCEPT !.holes = finalHoles,
                                 !.players = SelectSeq(cleanedPlayers, IsPlayer)]
    IN TheOnly({Cleaned(fh) : fh \in {CleanupHoles(scorecard.holes)}})

(***************************************************************************)
(* lib/textractOcr.ts, parseTableToScorecard: the player rows.             *)
(* A grid row is its label (column 0) and its cells in the hole columns;   *)
(* the first hole column is column 1.                                      *)
(***************************************************************************)
NumHoles == 2

Holes == [i \in 1..NumHoles |-> [holeNumber |-> i, par |-> ScenarioPars[i]]]

\* `rows[r][c]?.trim() || ''`
CellText(cell) == IF cell = NullTok THEN <<>> ELSE Trim(cell)

RowPlayerName(row) ==
    LET name0 == CellText(row.label)
        name1 == CellText(row.cells[1])
    IN IF name0 # <<>> /\ HasLetter(name0) THEN name0
       ELSE IF name1 # <<>> THEN name1
       ELSE name0

\* Number of hole cells holding a score-like value.
ValidScoreCells(row) ==
    Cardinality({i \in 1..Len(row.cells) :
                   LET cellValue == CellText(row.cells[i])
                   IN (cellValue # <<>> /\ MatchInt(cellValue)) \/ MatchE(cellValue)})

\* No hole cell holds a number <= 18.
AllHighValues(row) ==
    \A i \in 1..Len(row.cells) :
       LET numValue == ParseInt(CellText(row.cells[i]))
       IN ~(~numValue.nan /\ numValue.val <= 18)

\* The row filter without the test for rows whose values all exceed 18.
IsPlayerRowAnyValues(row) ==
    /\ RowPlayerName(row) # <<>>
    /\ ~IsMetadataRow(CellText(row.label), RowPlayerName(row))
    /\ ValidScoreCells(row) # 0
IsPlayerRow(row) ==
    /\ RowPlayerName(row) # <<>>
    /\ ~IsMetadataRow(CellText(row.label), RowPlayerName(row))
    /\ ValidScoreCells(row) # 0
    /\ ~(AllHighValues(row) /\ ValidScoreCells(row) > 0)

\* The raw score kept for one hole cell.
RawScore(cell) ==
    LET cellValue == CellText(cell)
    IN IF cellValue # <<>> /\ ~MatchInt(cellValue) /\ ~MatchE(cellValue) /\ cellValue # <<"0">>
       THEN NullTok
       ELSE IF cellValue = <<>> THEN NullTok ELSE cellValue

RECURSIVE Flatten(_)
Flatten(qq) == IF qq = <<>> THEN <<>> ELSE Head(qq) \o Flatten(Tail(qq))

\* STEP 1: playerData
PlayerData(rws) ==
    LET playerRows == SelectSeq(rws, IsPlayerRow)
    IN [i \in 1..Len(playerRows) |->
          [name |-> RowPlayerName(playerRows[i]),
           rawScores |-> [h \in 1..Len(playerRows[i].cells) |-> RawScore(playerRows[i].cells[h])]]]

\* STEP 1: allRawScores
AllRawScores(pd) ==
    LET NotNull(t) == t # NullTok
    IN Flatten([i \in 1..Len(pd) |-> SelectSeq(pd[i].rawScores, NotNull)])

\* STEP 2: the notation of the scorecard, detected from all rows together.
ScorecardNotation(pd) == DetectNotationStyle(AllRawScores(pd))

Unset == "unset"

\* STEP 3: the converted players, each with the history of the branches taken.
ConvertedPlayers(pd, style) ==
    [i \in 1..Len(pd) |->
       [name |-> pd[i].name,
        scores |-> [h \in 1..Len(pd[i].rawScores) |->
                      [holeNumber |-> h,
                       score |-> ConvertCell(style, pd[i].rawScores[h], Holes[h].par),
                       confidence |-> Unset, source |-> Unset]],
        branches |-> [h \in 1..Len(pd[i].rawScores) |->
                        CellBranch(style, pd[i].rawScores[h])],
        rawScores |-> pd[i].rawScores]]

HasValidScores(pl) == \E h \in 1..Len(pl.scores) : pl.scores[h].score # NullScore

\* The scorecard returned (or the error thrown) for the converted players.
ScorecardOf(converted, style) ==
    LET kept == SelectSeq(converted, HasValidScores)
    IN IF kept = <<>>
       THEN [ok |-> FALSE, error |-> "Could not extract any player scores from table"]
       ELSE [ok |-> TRUE,
             holes |-> Holes,
             players |-> [i \in 1..Len(kept) |-> [name |-> kept[i].name, scores |-> kept[i].scores]],
             notationStyle |-> style]

\* History: for the players of the scorecard, the raw tokens and the branch
\* that converted each.
HistoryOf(converted, style) ==
    LET kept == SelectSeq(converted, HasValidScores)
    IN [i \in 1..Len(kept) |->
          [rawScores |-> kept[i].rawScores, branches |-> kept[i].branches, style |-> style]]

(***************************************************************************)
(* The gap-filling merges.  The handwriting pass's answer is                *)
(*   [kind |-> "empty"]    no content in the response                      *)
(*   [kind |-> "garbled"]  JSON.parse throws                               *)
(*   [kind |-> "ok", players |-> <<[name, scores |-> <<[holeNumber, score]>>]>>] *)
(***************************************************************************)
\* Array.prototype.find: the first of the elements satisfying the test, or None.
FirstOrNone(hits) == IF hits = <<>> THEN None ELSE Head(hits)

\* `hole?.par || 4`
ParOfHole(holes, holeNumber) ==
    LET IsHole(h) == h.holeNumber = holeNumber
        hole == FirstOrNone(SelectSeq(holes, IsHole))
    IN IF hole = None \/ hole.par = 0 THEN 4 ELSE hole.par

ConfidenceOf(diff) == IF diff <= 3 THEN "high" ELSE IF diff <= 5 THEN "medium" ELSE "low"

\* lib/hybridOcr.ts enhanceWithVision: one score entry of a matched player.
EnhanceEntry(scoreEntry, visionPlayer, holes) ==
    LET IsHole(hs) == hs.holeNumber = scoreEntry.holeNumber
        visionScore == FirstOrNone(SelectSeq(visionPlayer.scores, IsHole))
        par == ParOfHole(holes, scoreEntry.holeNumber)
    IN IF scoreEntry.score = NullScore
       THEN IF visionScore # None /\ visionScore.score # NullScore
            THEN LET visionDiff == Abs(visionScore.score[1] - par)
                 IN IF visionDiff <= 7
                    THEN [scoreEntry EXCEPT !.score = visionScore.score,
                                            !.confidence = ConfidenceOf(visionDiff),
                                            !.source = "vision"]
                    ELSE scoreEntry
            ELSE scoreEntry
       ELSE [scoreEntry EXCEPT !.confidence = ConfidenceOf(Abs(scoreEntry.score[1] - par)),
                               !.source = "textract"]

EnhanceWithVision(struct, resp) ==
    IF resp.kind # "ok" THEN struct
    ELSE [struct EXCEPT !.players =
            [i \in 1..Len(struct.players) |->
               LET player == struct.players[i]
                   Matches(vs) == NormalizePlayerName(vs.name) = NormalizePlayerName(player.name)
                   Merged(visionPlayer) ==
                       IF visionPlayer # None
                       THEN [player EXCEPT !.scores =
                               [h \in 1..Len(player.scores) |->
                                  EnhanceEntry(player.scores[h], visionPlayer, struct.holes)]]
                       ELSE player
               IN TheOnly({Merged(v) : v \in {FirstOrNone(SelectSeq(resp.players, Matches))}})]]

\* lib/adaptiveOcr.ts tryHybridApproach: one score entry of a matched player.
HybridMergeEntry(scoreEntry, visionPlayer, holes) ==
    LET IsHole(vs) == vs.holeNumber = scoreEntry.holeNumber
        visionScore == FirstOrNone(SelectSeq(visionPlayer.scores, IsHole))
        par == ParOfHole(holes, scoreEntry.holeNumber)
        keep == scoreEntry.score # NullScore /\ Abs(scoreEntry.score[1] - par) <= 5
    IN IF keep
       THEN [scoreEntry EXCEPT
               !.confidence = IF Abs(scoreEntry.score[1] - par) <= 3 THEN "high" ELSE "medium",
               !.source = "textract"]
       ELSE IF visionScore # None /\ visionScore.score # NullScore
            THEN [scoreEntry EXCEPT
                    !.score = visionScore.score,
                    !.confidence = ConfidenceOf(Abs(visionScore.score[1] - par)),
                    !.source = "vision"]
       ELSE scoreEntry

HybridMerge(struct, visionData) ==
    [struct EXCEPT !.players =
        [i \in 1..Len(struct.players) |->
           LET structPlayer == struct.players[i]
               Matches(vp) == NormalizePlayerName(vp.name) = NormalizePlayerName(structPlayer.name)
               Merged(visionPlayer) ==
                   IF visionPlayer = None THEN structPlayer
                   ELSE [structPlayer EXCEPT !.scores =
                           [h \in 1..Len(structPlayer.scores) |->
                              HybridMergeEntry(structPlayer.scores[h], visionPlayer, struct.holes)]]
           IN TheOnly({Merged(v) : v \in {FirstOrNone(SelectSeq(visionData.players, Matches))}})]]

(***************************************************************************)
(* SpecTable and SpecMerge: a grid of two candidate player rows is parsed, *)
(* then (SpecMerge) merged with the handwriting pass by either merge.      *)
(***************************************************************************)
RowLabels == <<Str("JAY"), Str("Jessie")>>

\* Cells of the first row range over every kind of cell text, cells of the
\* second row over the kinds that change the scorecard-wide decision.
TableTokens ==
    {<<>>, Str("-"), Str("x"), Str("0"), Str("1"), Str("5"), Str("25"),
     Str("+1"), Str("-1"), Str("E"), Str("e")}
TableMoreTokens == {<<>>, Str("1"), Str("5"), Str("-1")}

MergeTokens == {<<>>, Str("5"), Str("11"), Str("-1")}

\* The values the handwriting pass reports for a cell.
VisionValues == {NullScore, Some(1), Some(13)}
\* The handwriting pass names the first player only, in its own spelling.
VisionName == Str("jay ")

GridsOver(first, more) ==
    {<<[label |-> RowLabels[1], cells |-> c1], [label |-> RowLabels[2], cells |-> c2]>> :
        c1 \in [1..NumHoles -> first], c2 \in [1..NumHoles -> more]}

VisionAnswers ==
    {[kind |-> "empty"], [kind |-> "garbled"]} \cup
    {[kind |-> "ok",
      players |-> <<[name |-> VisionName,
                     scores |-> [h \in 1..NumHoles |-> [holeNumber |-> h, score |-> v[h]]]]>>] :
        v \in [1..NumHoles -> VisionValues]}

RunnerIdle ==
    /\ pc = "idle" /\ layout = None /\ strat = <<>> /\ invoked = <<>>
    /\ results = <<>> /\ returned = None /\ thrown = <<>> /\ order = <<>>

TableStart ==
    /\ structure = None
    /\ interp = <<>>
    /\ vision = None
    /\ enhanced = None
    /\ merged = None

\* analyzeWithTextract: parseTableToScorecard returns or throws.
ParseTable ==
    /\ structure = None
    /\ \E pd \in {PlayerData(rows)} :
         \E style \in {ScorecardNotation(pd)} :
           \E converted \in {ConvertedPlayers(pd, style)} :
              /\ structure' = ScorecardOf(converted, style)
              /\ interp' = HistoryOf(converted, style)
    /\ UNCHANGED <<gridVars, pageVars, limitVars, validateVars, cleanupVars, runnerVars, notationVars, rows, vision, enhanced, merged>>

\* analyzeWithHybridOcr after Textract succeeded: the Vision call returns,
\* enhanceWithVision merges, cleanupExtractedData cleans, the result is returned.
HybridOcrEnhance ==
    /\ structure # None /\ structure.ok
    /\ vision = None
    /\ \E resp \in VisionAnswers :
         \E sc \in {EnhanceWithVision(structure, resp)} :
           /\ vision' = resp
           /\ enhanced' = [scorecard |-> sc, returned |-> CleanupExtractedData(sc)]
    /\ UNCHANGED <<gridVars, pageVars, limitVars, validateVars, cleanupVars, runnerVars, notationVars, rows, structure, interp, merged>>

\* tryHybridApproach after Textract succeeded: the Vision call returns; an
\* empty or unparsable answer makes the strategy throw, otherwise the answer
\* is merged and cleaned.
TryHybridApproachMerge ==
    /\ structure # None /\ structure.ok
    /\ vision = None
    /\ \E resp \in VisionAnswers :
         /\ vision' = resp
         /\ IF resp.kind # "ok"
            THEN merged' = [ok |-> FALSE, error |-> resp.kind]
            ELSE \E sc \in {HybridMerge(structure, resp)} :
                    merged' = [ok |-> TRUE, scorecard |-> sc,
                               cleaned |-> CleanupExtractedData(sc)]
    /\ UNCHANGED <<gridVars, pageVars, limitVars, validateVars, cleanupVars, runnerVars, notationVars, rows, structure, interp, enhanced>>

InitTable ==
    /\ rows \in GridsOver(TableTokens, TableMoreTokens)
    /\ TableStart
    /\ RunnerIdle
    /\ NotationIdle
    /\ ValidateIdle
    /\ CleanupIdle
    /\ LimitIdle
    /\ PageIdle
    /\ GridIdle

NextTable == ParseTable

SpecTable == InitTable /\ [][NextTable]_vars

InitMerge ==
    /\ rows \in GridsOver(MergeTokens, MergeTokens)
    /\ TableStart
    /\ RunnerIdle
    /\ NotationIdle
    /\ ValidateIdle
    /\ CleanupIdle
    /\ LimitIdle
    /\ PageIdle
    /\ GridIdle

NextMerge ==
    \/ ParseTable
    \/ HybridOcrEnhance
    \/ TryHybridApproachMerge

SpecMerge == InitMerge /\ [][NextMerge]_vars

(***************************************************************************)
(* Claims about detectNotationStyle (specification SpecNotation).          *)
(***************************************************************************)
\* The tokens of explicit relative syntax, and the bare numerals with their
\* values, among the tokens of SpecNotation.
ExplicitRelativeTokens == {<<"+", "1">>, <<"-", "1">>, <<"E">>, <<"e">>}
BareNumerals == {<<"0">>, <<"2">>, <<"3">>, <<"4">>, <<"2", "0">>}
NumeralValue(t) ==
    CASE t = <<"0">> -> 0
      [] t = <<"2">> -> 2
      [] t = <<"3">> -> 3
      [] t = <<"4">> -> 4
      [] t = <<"2", "0">> -> 20

RECURSIVE TotalOfNumerals(_)
TotalOfNumerals(q) ==
    IF q = <<>> THEN 0 ELSE NumeralValue(Head(q)) + TotalOfNumerals(Tail(q))

HasExplicitToken == \E i \in 1..Len(ntoks) : ntoks[i] \in ExplicitRelativeTokens
NumeralsOfCollection ==
    LET IsNumeral(t) == t \in BareNumerals IN SelectSeq(ntoks, IsNumeral)

\* The style the three rules give for the collection, in their priority order.
StyleByRules ==
    LET numerals == NumeralsOfCollection
    IN IF HasExplicitToken THEN "relative"
       ELSE IF /\ Len(numerals) >= 6
               /\ \A i \in 1..Len(numerals) : NumeralValue(numerals[i]) <= 3
               /\ 2 * TotalOfNumerals(numerals) < 5 * Len(numerals)
            THEN "relative"
       ELSE "gross"

\* C7: detectNotationStyle returns 'relative' if any token is +N, -N or E/e;
\* otherwise 'relative' if there are at least 6 numeric tokens, all <= 3, with
\* mean < 2.5; otherwise 'gross'.  Null and "-" tokens are ignored.
C7_DetectNotationStyleRules ==
    nresult # None => nresult.style = StyleByRules

\* C7 witness: a collection without explicit relative syntax is classified
\* relative by the statistical rule.
C7_Witness ==
    /\ nresult # None
    /\ nresult.style = "relative"
    /\ ~HasExplicitToken
    /\ Len(NumeralsOfCollection) >= 6
    /\ \E i \in 1..Len(ntoks) : ntoks[i] = <<"3">>

(***************************************************************************)
(* Claims about parseTableToScorecard (specification SpecTable).           *)
(***************************************************************************)
Parsed == structure # None /\ structure.ok

\* The grid row of a player of the scorecard (labels are distinct), and the
\* text of its cell on hole h.
RowOfPlayer(i) == CHOOSE r \in 1..Len(rows) : rows[r].label = structure.players[i].name
CellOf(i, h) == rows[RowOfPlayer(i)].cells[h]
ScoreOf(i, h) == structure.players[i].scores[h].score
ParOf(h) == structure.holes[h].par

PlayerCells == {<<i, h>> : i \in 1..Len(structure.players), h \in 1..NumHoles}

\* C5: the notation style is detected once for the scorecard and every cell
\* of every player is converted under that single style, which is the
\* scorecard's notationStyle: no cell is interpreted under another style.
C5_OneStylePerScorecard ==
    Parsed =>
      \A i \in 1..Len(structure.players) :
         /\ interp[i].style = structure.notationStyle
         /\ \A h \in 1..NumHoles :
              interp[i].branches[h] \in {"none", structure.notationStyle}

\* The offset from par each cell text of SpecTable stands for under the
\* relative style.
RelativeCellTexts ==
    {Str("+1"), Str("-1"), Str("E"), Str("e"), Str("0"), Str("1"), Str("5"), Str("25")}
OffsetOf(t) ==
    CASE t = Str("+1") -> 1
      [] t = Str("-1") -> -1
      [] t \in {Str("E"), Str("e"), Str("0")} -> 0
      [] t = Str("1") -> 1
      [] t = Str("5") -> 5
      [] t = Str("25") -> 25

\* C8: under the relative style, on a hole of par p, '+N' converts to p+N,
\* '-N' to p-N, 'E', 'e' and '0' to p, and a bare numeral N to p+N.
C8_RelativeConversion ==
    (Parsed /\ structure.notationStyle = "relative") =>
      \A c \in PlayerCells :
         CellOf(c[1], c[2]) \in RelativeCellTexts
            => ScoreOf(c[1], c[2]) = Some(ParOf(c[2]) + OffsetOf(CellOf(c[1], c[2])))

\* C8 witness: a relative scorecard in which a bare 1 on the par 5 became 6
\* and a +1 on the par 4 became 5.
C8_Witness ==
    /\ Parsed
    /\ structure.notationStyle = "relative"
    /\ \E i \in 1..Len(structure.players) :
         /\ CellOf(i, 1) = Str("1") /\ ParOf(1) = 5 /\ ScoreOf(i, 1) = Some(6)
         /\ CellOf(i, 2) = Str("+1") /\ ParOf(2) = 4 /\ ScoreOf(i, 2) = Some(5)

\* C9: a lone '0' is converted to the hole's par when the scorecard-wide
\* style is relative, and to null when it is gross.
C9_LoneZero ==
    Parsed =>
      \A c \in PlayerCells :
         CellOf(c[1], c[2]) = Str("0")
            => ScoreOf(c[1], c[2]) =
                 (IF structure.notationStyle = "relative" THEN Some(ParOf(c[2])) ELSE NullScore)

\* The literal integer of each cell text of SpecTable that is a numeral.
LiteralCellTexts == {Str("0"), Str("1"), Str("5"), Str("25")}
LiteralOf(t) ==
    CASE t = Str("0") -> 0
      [] t = Str("1") -> 1
      [] t = Str("5") -> 5
      [] t = Str("25") -> 25

\* C10: under the gross style a cell converts to its literal integer when
\* that integer is in [1,20] and to null otherwise; a blank, '-' or
\* unparseable cell yields null for that cell only, the other cells and the
\* extraction being unaffected.
C10_GrossLiteralOrNull ==
    (Parsed /\ structure.notationStyle = "gross") =>
      \A c \in PlayerCells :
         ScoreOf(c[1], c[2]) =
            (IF /\ CellOf(c[1], c[2]) \in LiteralCellTexts
                /\ LiteralOf(CellOf(c[1], c[2])) >= 1
                /\ LiteralOf(CellOf(c[1], c[2])) <= 20
             THEN Some(LiteralOf(CellOf(c[1], c[2])))
             ELSE NullScore)

(***************************************************************************)
(* Claims about the gap-filling merges (specification SpecMerge).          *)
(***************************************************************************)
\* The scorecards produced by a merge in the current state.
MergeResults ==
    (IF enhanced # None THEN {enhanced.scorecard} ELSE {})
       \cup (IF merged # None /\ merged.ok THEN {merged.scorecard} ELSE {})

StructCells == {<<i, h>> : i \in 1..Len(structure.players), h \in 1..NumHoles}

\* C1: a cell whose structural score is non-null keeps that score in the
\* merge whatever the handwriting pass returned and is not tagged as a
\* handwriting value; only cells whose structural score is null can receive
\* a handwriting value.
C1_StructuralScoreKept ==
    \A sc \in MergeResults :
       \A c \in StructCells :
          LET before == structure.players[c[1]].scores[c[2]]
              after == sc.players[c[1]].scores[c[2]]
          IN /\ before.score # NullScore
                  => after.score = before.score /\ after.source # "vision"
             /\ after.source = "vision" => before.score = NullScore

\* C6: when the structural pass detected relative notation, a null cell filled
\* from the handwriting pass holds gross strokes under that notation: raw
\* value v on a hole of par p is stored as p + v.
C6_GapFillUnderDetectedNotation ==
    \A sc \in MergeResults :
       structure.notationStyle = "relative" =>
          \A c \in StructCells :
             LET before == structure.players[c[1]].scores[c[2]]
                 after == sc.players[c[1]].scores[c[2]]
             IN (before.score = NullScore /\ after.source = "vision")
                   => after.score =
                        Some(sc.holes[c[2]].par + vision.players[1].scores[c[2]].score[1])

\* C14: in the gap-filling merge a handwriting value for a cell whose
\* structural score is null is accepted only if it lies within 7 of the hole's
\* par; a value farther away is rejected and the cell stays null.
C14_GapAcceptedWithinSevenOfPar ==
    \A sc \in MergeResults :
       \A c \in StructCells :
          LET before == structure.players[c[1]].scores[c[2]]
              after == sc.players[c[1]].scores[c[2]]
          IN before.score = NullScore
                => \/ after.score = NullScore
                   \/ Abs(after.score[1] - sc.holes[c[2]].par) <= 7

\* C15: after the gap-filling merge every entry with a non-null score
\* carries the confidence given by its distance from par (high up to 3,
\* medium up to 5, low beyond) and a source tag: "vision" when the
\* structural cell was null and was filled, "textract" only for a value the
\* structural pass read; no non-null score is left without a source tag.
C15_ConfidenceAndSourceTagged ==
    \A sc \in MergeResults : \A c \in StructCells :
       LET before == structure.players[c[1]].scores[c[2]]
           after == sc.players[c[1]].scores[c[2]]
           dist == Abs(after.score[1] - sc.holes[c[2]].par)
       IN after.score # NullScore
             => /\ after.confidence = ConfidenceOf(dist)
                /\ after.source \in {"textract", "vision"}
                /\ (before.score = NullScore => after.source = "vision")
                /\ (after.source = "textract" => after.score = before.score)

(***************************************************************************)
(* Already-gross collections.                                              *)
(***************************************************************************)
\* The tokens of the collection that are whole numbers from 3 up to the
\* largest gross score parseScoreToGross accepts.
GrossNumerals == {t \in BareNumerals : NumeralValue(t) >= 3 /\ NumeralValue(t) <= 20}
AllGrossNumerals == ntoks # <<>> /\ \A i \in 1..Len(ntoks) : ntoks[i] \in GrossNumerals

\* C12: normalisation is the identity on already-gross input: when every
\* token is a whole number of at least 3 within the valid gross range, the
\* detected style is 'gross' and every converted score is the number its
\* token writes, six or more tokens '3' included.
C12_GrossInputUnchanged ==
    (nresult # None /\ AllGrossNumerals)
       => /\ nresult.style = "gross"
          /\ \A i \in 1..Len(ntoks) : nresult.scores[i] = Some(NumeralValue(ntoks[i]))

\* C12 witness: six tokens '3' were normalised and stayed six scores of 3.
C12_Witness ==
    /\ nresult # None
    /\ Len(ntoks) >= 6
    /\ \A i \in 1..Len(ntoks) : ntoks[i] = <<"3">>
    /\ nresult.style = "gross"
    /\ \A i \in 1..Len(ntoks) : nresult.scores[i] = Some(3)

(***************************************************************************)
(* SpecScenario: the reference scorecard of the integration test, one row  *)
(* of nine hole cells on the pars ScenarioPars; any of the cells may have  *)
(* come back unread from the structural pass.                              *)
(***************************************************************************)
\* __tests__/scorecard-extraction.test.ts: JAY's raw scores.
ReferenceRow ==
    <<Str("1"), Str("1"), Str("1"), Str("-1"), Str("3"), Str("0"), Str("1"), Str("1"),
      NullTok>>
ReferenceGross ==
    <<Some(6), Some(5), Some(5), Some(3), Some(8), Some(3), Some(5), Some(4), NullScore>>

ScenarioRows ==
    {row \in [1..Len(ReferenceRow) -> {NullTok} \cup {ReferenceRow[i] : i \in 1..Len(ReferenceRow)}] :
        \A i \in 1..Len(ReferenceRow) : row[i] \in {ReferenceRow[i], NullTok}}

InitScenario ==
    /\ ntoks \in ScenarioRows
    /\ nresult = None
    /\ TableIdle
    /\ RunnerIdle
    /\ ValidateIdle
    /\ CleanupIdle
    /\ LimitIdle
    /\ PageIdle
    /\ GridIdle

NextScenario == Normalise

SpecScenario == InitScenario /\ [][NextScenario]_vars

\* C11: on the pars 5,4,4,4,5,3,4,3,4 the row 1,1,1,-1,3,0,1,1,(unread) is
\* detected as relative notation and converted to the gross scores
\* 6,5,5,3,8,3,5,4,null.
C11_ReferenceRowToGross ==
    (nresult # None /\ ntoks = ReferenceRow)
       => /\ nresult.style = "relative"
          /\ nresult.scores = ReferenceGross

\* C11 witness: the reference row has been normalised; its fifth cell, 3 over
\* par 5, reads 8.
C11_Witness ==
    /\ nresult # None
    /\ ntoks = ReferenceRow
    /\ nresult.scores[5] = Some(8)

(***************************************************************************)
(* lib/adaptiveOcr.ts, validateScorecard.                                  *)
(*                                                                         *)
(* The score is kept in whole numbers.  The two quotients of the source    *)
(* are IEEE-754 doubles: validScores / holes.length is compared with 0.3   *)
(* and 0.6, where the distance of the exact quotient from the threshold,   *)
(* when not zero, is far above the rounding error, and an exact 3/10 or    *)
(* 6/10 rounds to the literal itself; so these tests are the exact ones.   *)
(* Math.abs(avg - avgPar) > 3 is the exact test too unless the exact       *)
(* difference is 3, and then the rounding of the two divisions decides;    *)
(* that case is computed on the 53-bit significands.                       *)
(***************************************************************************)
\* x = n / d > 0 brought to  (n / d) * 2^e  with  1 <= n / d < 2.
RECURSIVE NormDbl(_, _, _)
NormDbl(n, d, e) ==
    IF n >= 2 * d THEN NormDbl(n, 2 * d, e + 1)
    ELSE IF n < d THEN NormDbl(2 * n, d, e - 1)
    ELSE [n |-> n, d |-> d, e |-> e]

\* i more bits of the quotient whose remainder so far is r: the remainder
\* after them and the last bit produced.
RECURSIVE SignificandRem(_, _, _, _)
SignificandRem(i, r, bit, d) ==
    IF i = 0 THEN <<r, bit>>
    ELSE IF 2 * r >= d THEN SignificandRem(i - 1, 2 * r - d, 1, d)
    ELSE SignificandRem(i - 1, 2 * r, 0, d)

\* The rounding error of the double nearest to n / d (round to nearest, ties
\* to even), as the numerator of a fraction over x.d in units of 2^(x.e - 52).
RoundErr(n, d) ==
    IF n = 0 THEN [num |-> 0, d |-> 1, e |-> 0]
    ELSE LET RoundOf(x) ==
                 LET Err(mr) ==
                         IF 2 * mr[1] > x.d \/ (2 * mr[1] = x.d /\ mr[2] = 1)
                         THEN x.d - mr[1] ELSE 0 - mr[1]
                 IN [num |-> TheOnly({Err(mr) : mr \in {SignificandRem(52, x.n - x.d, 1, x.d)}}),
                     d |-> x.d, e |-> x.e]
         IN TheOnly({RoundOf(x) : x \in {NormDbl(n, d, 0)}})

Pow2(k) == 2 ^ k

\* fl(fl(hn / hd) - fl(ln / ld)) > 3 when hn / hd - ln / ld is exactly 3: the
\* difference of the two doubles is 3 + (eh - el), which rounds above 3 iff
\* eh - el exceeds half the spacing 2^-51 of the doubles around 3.
RoundsAboveThree(hn, hd, ln, ld) ==
    LET Test(eh, el) ==
            LET s == IF el.e < 0 THEN 0 - el.e ELSE 0
            IN eh.num * Pow2(eh.e + s) * el.d - el.num * Pow2(el.e + s) * eh.d
                  > eh.d * el.d * Pow2(s)
    IN \E eh \in {RoundErr(hn, hd)} : \E el \in {RoundErr(ln, ld)} : Test(eh, el)

\* Math.abs(avg - avgPar) > 3 with avg = sum / count and avgPar = parSum / n.
AverageFarFromPar(sum, count, parSum, n) ==
    LET lhs == Abs(sum * n - parSum * count)
        rhs == 3 * count * n
    IN IF lhs # rhs THEN lhs > rhs
       ELSE IF sum * n > parSum * count THEN RoundsAboveThree(sum, count, parSum, n)
       ELSE RoundsAboveThree(parSum, n, sum, count)

\* .sort((a, b) => a - b) of the hole numbers.
RECURSIVE InsertNumber(_, _)
InsertNumber(x, q) ==
    IF q = <<>> THEN <<x>>
    ELSE IF Head(q) <= x THEN <<Head(q)>> \o InsertNumber(x, Tail(q))
    ELSE <<x>> \o q
RECURSIVE SortNumbers(_)
SortNumbers(q) ==
    IF q = <<>> THEN <<>>
    ELSE TheOnly({InsertNumber(q[Len(q)], sorted) :
                     sorted \in {SortNumbers(SubSeq(q, 1, Len(q) - 1))}})

ValidateScorecard(scorecard, lay) ==
    LET holes == scorecard.holes
        players == scorecard.players
        nHoles == Len(holes)
        \* 1. hole count
        holeCountPenalty ==
            IF nHoles # lay.holeCount THEN Abs(nHoles - lay.holeCount) * 10 ELSE 0
        \* 2. hole sequence
        SequencePenalty(holeNumbers) ==
            IF \E i \in 1..Len(holeNumbers) : holeNumbers[i] # i THEN 5 ELSE 0
        sequencePenalty ==
            TheOnly({SequencePenalty(hn) :
                        hn \in {SortNumbers([i \in 1..nHoles |-> holes[i].holeNumber])}})
        \* 3. pars
        InvalidPar(h) == h.par < 3 \/ h.par > 5
        parPenalty == Len(SelectSeq(holes, InvalidPar)) * 5
        \* 4. players
        playerPenalty == IF Len(players) = 0 THEN 50 ELSE 0
        \* 5. reasonableness
        Unreasonable(scoreEntry) ==
            /\ scoreEntry.score # NullScore
            /\ LET IsHole(h) == h.holeNumber = scoreEntry.holeNumber
                   Far(hole) == hole # None /\ Abs(scoreEntry.score[1] - hole.par) > 7
               IN \E hole \in {FirstOrNone(SelectSeq(holes, IsHole))} : Far(hole)
        unreasonableScores ==
            SumSeq([p \in 1..Len(players) |-> Len(SelectSeq(players[p].scores, Unreasonable))])
        reasonablenessPenalty ==
            IF unreasonableScores * 2 < 30 THEN unreasonableScores * 2 ELSE 30
        \* 6. completeness; with no holes the quotient is NaN or Infinity
        HasScore(scoreEntry) == scoreEntry.score # NullScore
        CompletenessPenalty(validScores) ==
            IF nHoles = 0 THEN 0
            ELSE IF 10 * validScores < 3 * nHoles THEN 20
            ELSE IF 10 * validScores < 6 * nHoles THEN 10
            ELSE 0
        completenessPenalty ==
            SumSeq([p \in 1..Len(players) |->
                      CompletenessPenalty(Len(SelectSeq(players[p].scores, HasScore)))])
        \* 7. distribution; with no holes avgPar is NaN
        allScores ==
            Flatten([p \in 1..Len(players) |->
                       LET valid == SelectSeq(players[p].scores, HasScore)
                       IN [i \in 1..Len(valid) |-> valid[i].score[1]]])
        DistributionPenalty(all) ==
            IF Len(all) > 0 /\ nHoles > 0
                  /\ AverageFarFromPar(SumSeq(all), Len(all),
                                       SumSeq([i \in 1..nHoles |-> holes[i].par]), nHoles)
            THEN 10 ELSE 0
        distributionPenalty == TheOnly({DistributionPenalty(all) : all \in {allScores}})
    IN Max(0, 100 - holeCountPenalty - sequencePenalty - parPenalty - playerPenalty
                  - reasonablenessPenalty - completenessPenalty - distributionPenalty)

(***************************************************************************)
(* SpecValidate: validateScorecard applied to one scorecard and layout,    *)
(* then once more to the same scorecard with one more score entered, more  *)
(* than 7 strokes from its hole's par.                                     *)
(***************************************************************************)
MaxHolesV == 9   \* a validated scorecard has 0..MaxHolesV holes

\* Pars 3,4,4 repeating, the first `bad` holes with the par 6; hole numbers
\* from 1 + shift.
ValidateHoles(n, bad, shift) ==
    [i \in 1..n |-> [holeNumber |-> i + shift,
                     par |-> IF i <= bad THEN 6 ELSE IF i % 3 = 1 THEN 3 ELSE 4]]
HoleVariants(n) ==
    {ValidateHoles(n, 0, 0), ValidateHoles(n, 1, 0), ValidateHoles(n, 2, 0),
     ValidateHoles(n, 0, 1)}

\* One player's row over the holes: the first f cells 8 over par, the next g
\* cells delta over par, the others not read.
ValidateRow(holes, f, g, delta) ==
    [i \in 1..Len(holes) |->
        [holeNumber |-> holes[i].holeNumber,
         score |-> IF i <= f THEN Some(holes[i].par + 8)
                   ELSE IF i <= f + g THEN Some(holes[i].par + delta)
                   ELSE NullScore]]
ValidateRows(holes) ==
    {ValidateRow(holes, f, g, delta) :
        f \in 0..Len(holes), g \in 0..Len(holes), delta \in {0, 3, 4}}
ValidateOtherRows(holes) ==
    {ValidateRow(holes, Len(holes), 0, 0), ValidateRow(holes, 0, Len(holes), 0),
     ValidateRow(holes, 0, 0, 0)}
ValidatePlayers(holes) ==
    {<<>>}
       \cup {<<[name |-> Str("JAY"), scores |-> row]>> : row \in ValidateRows(holes)}
       \cup {<<[name |-> Str("JAY"), scores |-> row],
               [name |-> Str("Jessie"), scores |-> other]>> :
                row \in ValidateRows(holes), other \in ValidateOtherRows(holes)}
ValidateScorecards ==
    UNION {{[holes |-> holes, players |-> players] : players \in ValidatePlayers(holes)} :
              holes \in UNION {HoleVariants(n) : n \in 0..MaxHolesV}}
ValidateLayouts == {DefaultLayout, ParsedLayout(18)}

\* validateScorecard(cleaned, layout)
Validate ==
    /\ vscore = None
    /\ vscore' = [value |-> ValidateScorecard(vcard, vlayout)]
    /\ UNCHANGED <<gridVars, pageVars, limitVars, runnerVars, notationVars, tableVars, cleanupVars, vcard, vlayout, vprev>>

\* The first cell of player p that holds no score.
FirstNullCell(p) ==
    LET scores == vcard.players[p].scores
        nulls == {i \in 1..Len(scores) : scores[i].score = NullScore}
    IN IF nulls = {} THEN 0 ELSE CHOOSE i \in nulls : \A j \in nulls : i <= j

\* The same scorecard with one more score, 8 strokes over its hole's par,
\* validated again.
AddOutOfRangeScore ==
    /\ vscore # None
    /\ vprev = None
    /\ \E p \in 1..Len(vcard.players) : \E c \in {FirstNullCell(p)} :
          /\ c # 0
          /\ \E card \in {[vcard EXCEPT !.players[p].scores[c].score =
                                           Some(vcard.holes[c].par + 8)]} :
                /\ vprev' = [score |-> vscore.value, scorecard |-> vcard, player |-> p]
                /\ vcard' = card
                /\ vscore' = [value |-> ValidateScorecard(card, vlayout)]
    /\ UNCHANGED <<gridVars, pageVars, limitVars, runnerVars, notationVars, tableVars, cleanupVars, vlayout>>

InitValidate ==
    /\ vcard \in ValidateScorecards
    /\ vlayout \in ValidateLayouts
    /\ vscore = None
    /\ vprev = None
    /\ RunnerIdle
    /\ NotationIdle
    /\ TableIdle
    /\ CleanupIdle
    /\ LimitIdle
    /\ PageIdle
    /\ GridIdle

NextValidate == Validate \/ AddOutOfRangeScore

SpecValidate == InitValidate /\ [][NextValidate]_vars

(***************************************************************************)
(* Validation score: the deductions as sums over the scorecard.            *)
(***************************************************************************)
HoleNumbersOf(sc) == {sc.holes[i].holeNumber : i \in 1..Len(sc.holes)}
ScoredCells(sc) ==
    {c \in UNION {{<<p, i>> : i \in 1..Len(sc.players[p].scores)} : p \in 1..Len(sc.players)} :
        sc.players[c[1]].scores[c[2]].score # NullScore}
CellValue(sc, c) == sc.players[c[1]].scores[c[2]].score[1]
CellPar(sc, c) ==
    LET first == CHOOSE i \in 1..Len(sc.holes) :
                    /\ sc.holes[i].holeNumber = sc.players[c[1]].scores[c[2]].holeNumber
                    /\ \A j \in 1..(i - 1) : sc.holes[j].holeNumber # sc.holes[i].holeNumber
    IN sc.holes[first].par
OutOfRangeCells(sc) == {c \in ScoredCells(sc) : Abs(CellValue(sc, c) - CellPar(sc, c)) > 7}
ScoredBy(sc, p) == Cardinality({c \in ScoredCells(sc) : c[1] = p})
RECURSIVE TotalOver(_, _, _)
TotalOver(sc, cells, kind) ==
    IF cells = {} THEN 0
    ELSE LET c == CHOOSE x \in cells : TRUE
         IN (IF kind = "score" THEN CellValue(sc, c) ELSE CellPar(sc, c))
               + TotalOver(sc, cells \ {c}, kind)
ParTotal(sc) == SumSeq([i \in 1..Len(sc.holes) |-> sc.holes[i].par])

\* The mean score differs from the mean par by more than 3, in whole numbers.
MeanFarFromPar(sc) ==
    LET k == Cardinality(ScoredCells(sc))
        n == Len(sc.holes)
    IN k > 0 /\ Abs(TotalOver(sc, ScoredCells(sc), "score") * n - ParTotal(sc) * k) > 3 * k * n

DeductionTotal(sc, lay) ==
    LET n == Len(sc.holes)
        incomplete20 == {p \in 1..Len(sc.players) : 10 * ScoredBy(sc, p) < 3 * n}
        incomplete10 == {p \in 1..Len(sc.players) : 10 * ScoredBy(sc, p) < 6 * n} \ incomplete20
        outOfRange == 2 * Cardinality(OutOfRangeCells(sc))
    IN 10 * Abs(n - lay.holeCount)
          + (IF HoleNumbersOf(sc) # 1..n THEN 5 ELSE 0)
          + 5 * Cardinality({i \in 1..n : sc.holes[i].par \notin 3..5})
          + (IF sc.players = <<>> THEN 50 ELSE 0)
          + (IF outOfRange < 30 THEN outOfRange ELSE 30)
          + 20 * Cardinality(incomplete20) + 10 * Cardinality(incomplete10)
          + (IF MeanFarFromPar(sc) THEN 10 ELSE 0)

\* C16: validateScorecard returns max(0, 100 - P), P being the sum of the
\* deductions for hole count, hole sequence, pars out of range, no players,
\* scores more than 7 from par (2 each, at most 30), incomplete players (20
\* below 30%, else 10 below 60%) and a mean score more than 3 from the mean
\* par; the result lies within 0..100.
C16_ValidationScoreFormula ==
    vscore # None
       => /\ vscore.value = Max(0, 100 - DeductionTotal(vcard, vlayout))
          /\ vscore.value \in 0..100

\* A scorecard without structural deductions: as many holes as the layout
\* expects, numbered 1..n, every par within 3..5, at least one player.
WellFormedScorecard(sc, lay) ==
    /\ Len(sc.holes) = lay.holeCount
    /\ HoleNumbersOf(sc) = 1..Len(sc.holes)
    /\ \A i \in 1..Len(sc.holes) : sc.holes[i].par \in 3..5
    /\ sc.players # <<>>

\* C17: entering one more score that is more than 7 strokes from its hole's
\* par into a valid scorecard never raises the validation score: the new
\* score is lower, or equal only when the deduction for such scores was
\* already at its cap of 30.
C17_OutOfRangeScoreNeverRaises ==
    (vprev # None /\ WellFormedScorecard(vprev.scorecard, vlayout))
       => /\ vscore.value <= vprev.score
          /\ (vscore.value = vprev.score
                 => 2 * Cardinality(OutOfRangeCells(vprev.scorecard)) >= 30)

(***************************************************************************)
(* SpecCleanup: cleanupExtractedData applied to one candidate scorecard.   *)
(* The candidates are of two kinds: long hole lists with one player, and   *)
(* short hole lists with players of all kinds of names and score entries.  *)
(***************************************************************************)
MaxHoleCount == 20   \* a candidate has 0..MaxHoleCount consecutive hole numbers
MaxEntries == 2      \* a player of the second kind has 0..MaxEntries score entries

Reverse(q) == [i \in 1..Len(q) |-> q[Len(q) + 1 - i]]

\* count holes numbered from lo, pars 4,5,3 repeating; bad: the second hole
\* has the par 6; desc: listed from the last to the first; dup: the number of
\* the first listed hole is listed once more at the end, with another par.
CandidateHoles(lo, count, desc, dup, bad) ==
    LET base == [i \in 1..count |->
                    [holeNumber |-> lo + i - 1,
                     par |-> IF bad /\ i = 2 THEN 6 ELSE 3 + (i % 3)]]
        listed == IF desc THEN Reverse(base) ELSE base
    IN IF dup /\ count > 0
       THEN Append(listed, [holeNumber |-> listed[1].holeNumber,
                            par |-> 3 + ((listed[1].par - 2) % 3)])
       ELSE listed
LongHoleLists ==
    {CandidateHoles(lo, count, desc, dup, bad) :
        lo \in 0..2, count \in 0..MaxHoleCount, desc \in BOOLEAN, dup \in BOOLEAN,
        bad \in BOOLEAN}
ShortHoleLists ==
    {CandidateHoles(1, 3, FALSE, FALSE, FALSE), CandidateHoles(1, 2, TRUE, TRUE, FALSE)}

\* A score at par on every listed hole.
ParRow(holes) ==
    [i \in 1..Len(holes) |-> [holeNumber |-> holes[i].holeNumber, score |-> Some(holes[i].par)]]

CandidateNames ==
    {Str("JAY"), Str("Wally"), Str("HANDICAP"), Str("Ladies' Hcp"), Str("PAR"),
     Str("Pace of Play"), Str("Blue 67"), Str("M: 70.1 Blue"), Str("Mens"), Str("ladies")}
CandidateEntries ==
    {[holeNumber |-> h, score |-> v] :
        h \in {1, 2, 19}, v \in {NullScore, Some(0), Some(1), Some(15), Some(16)}}
RECURSIVE EntryLists(_)
EntryLists(n) ==
    IF n = 0 THEN {<<>>}
    ELSE TheOnly({shorter \cup {Append(q, e) : q \in {x \in shorter : Len(x) = n - 1},
                                               e \in CandidateEntries} :
                     shorter \in {EntryLists(n - 1)}})

CandidateScorecards ==
    {[holes |-> holes, players |-> <<[name |-> Str("JAY"), scores |-> ParRow(holes)]>>] :
        holes \in LongHoleLists}
       \cup {[holes |-> holes, players |-> <<[name |-> name, scores |-> entries]>>] :
                holes \in ShortHoleLists, name \in CandidateNames,
                entries \in EntryLists(MaxEntries)}
       \cup {[holes |-> CandidateHoles(1, 3, FALSE, FALSE, FALSE),
              players |-> <<[name |-> first, scores |-> <<>>],
                            [name |-> second,
                             scores |-> ParRow(CandidateHoles(1, 3, FALSE, FALSE, FALSE))]>>] :
                first \in CandidateNames, second \in CandidateNames}

\* cleanupExtractedData(scorecard)
Cleanup ==
    /\ cout = None
    /\ cout' = CleanupExtractedData(cin)
    /\ UNCHANGED <<gridVars, pageVars, limitVars, runnerVars, notationVars, tableVars, validateVars, cin, cagain>>

\* cleanupExtractedData applied once more, to the scorecard it returned.
CleanupAgain ==
    /\ cout # None
    /\ cagain = None
    /\ cagain' = CleanupExtractedData(cout)
    /\ UNCHANGED <<gridVars, pageVars, limitVars, runnerVars, notationVars, tableVars, validateVars, cin, cout>>

InitCleanup ==
    /\ cin \in CandidateScorecards
    /\ cout = None
    /\ cagain = None
    /\ RunnerIdle
    /\ NotationIdle
    /\ TableIdle
    /\ ValidateIdle
    /\ LimitIdle
    /\ PageIdle
    /\ GridIdle

NextCleanup == Cleanup \/ CleanupAgain

SpecCleanup == InitCleanup /\ [][NextCleanup]_vars

(***************************************************************************)
(* Cleanup: what the candidate lists and what the result keeps.            *)
(***************************************************************************)
ListedHoleOk(h) == h.holeNumber \in 1..18 /\ h.par \in 3..5
\* The hole numbers of the candidate that pass the two range tests.
SurvivingNumbers == {cin.holes[i].holeNumber : i \in {j \in 1..Len(cin.holes) : ListedHoleOk(cin.holes[j])}}
RetainedNumbers == {cout.holes[i].holeNumber : i \in 1..Len(cout.holes)}
SmallestOf(S, k) == {x \in S : Cardinality({y \in S : y < x}) < k}
\* The first hole the candidate lists under the number n that passes the tests.
FirstListed(n) ==
    LET ok == {i \in 1..Len(cin.holes) : cin.holes[i].holeNumber = n /\ ListedHoleOk(cin.holes[i])}
    IN cin.holes[CHOOSE i \in ok : \A j \in ok : i <= j]
\* The names of CandidateNames that are scorecard metadata: handicap rows,
\* the par row, pace of play, tee rating rows, gender qualifiers.
MetadataNames ==
    {Str("HANDICAP"), Str("Ladies' Hcp"), Str("PAR"), Str("Pace of Play"), Str("Blue 67"),
     Str("M: 70.1 Blue"), Str("Mens"), Str("ladies")}

\* C18: in the result of cleanupExtractedData every hole has a number within
\* 1..18 and a par within 3..5, no hole number occurs twice and the hole kept
\* is the first one listed, no player bears a metadata name, and every score
\* entry is for a retained hole, the only one of its player for that hole,
\* and null or within 1..15.
C18_CleanupOutputInvariants ==
    cout # None
       => /\ \A i \in 1..Len(cout.holes) :
                /\ ListedHoleOk(cout.holes[i])
                /\ cout.holes[i] = FirstListed(cout.holes[i].holeNumber)
                /\ \A j \in 1..Len(cout.holes) :
                      j # i => cout.holes[j].holeNumber # cout.holes[i].holeNumber
          /\ \A p \in 1..Len(cout.players) :
                /\ cout.players[p].name \notin MetadataNames
                /\ \A i \in 1..Len(cout.players[p].scores) :
                      LET e == cout.players[p].scores[i]
                      IN /\ e.holeNumber \in RetainedNumbers
                         /\ (e.score = NullScore \/ e.score[1] \in 1..15)
                         /\ \A j \in 1..Len(cout.players[p].scores) :
                               j # i => cout.players[p].scores[j].holeNumber # e.holeNumber

\* C18 witness: a candidate with a hole 0, a par 6 and a hole listed twice
\* was cleaned; holes and score entries were dropped and some were kept.
C18_Witness ==
    /\ cout # None
    /\ \E i \in 1..Len(cin.holes) : cin.holes[i].holeNumber = 0
    /\ \E i \in 1..Len(cin.holes) : cin.holes[i].par = 6
    /\ \E i, j \in 1..Len(cin.holes) : i # j /\ cin.holes[i].holeNumber = cin.holes[j].holeNumber
    /\ Len(cout.holes) >= 2
    /\ Len(cout.holes) + 3 <= Len(cin.holes)
    /\ Len(cout.players) = 1
    /\ Len(cout.players[1].scores) = Len(cout.holes)

\* C19: when 10 to 17 holes survive the filters the result holds exactly the
\* first 9 of them, when more than 18 survive exactly the first 18; so 12
\* unique valid holes give 9, and the 20 holes 1..20 give 18.
C19_TruncationToNineOrEighteen ==
    cout # None
       => /\ (Cardinality(SurvivingNumbers) \in 10..17
                 => /\ Len(cout.holes) = 9
                    /\ RetainedNumbers = SmallestOf(SurvivingNumbers, 9))
          /\ (Cardinality(SurvivingNumbers) > 18
                 => /\ Len(cout.holes) = 18
                    /\ RetainedNumbers = SmallestOf(SurvivingNumbers, 18))
          /\ ((Len(cin.holes) = 20
                  /\ {cin.holes[i].holeNumber : i \in 1..Len(cin.holes)} = 1..20
                  /\ \A i \in 1..Len(cin.holes) : cin.holes[i].par \in 3..5)
                 => Len(cout.holes) = 18 /\ RetainedNumbers = 1..18)

\* C19 witness: 12 unique valid holes were cut to the first 9.
C19_Witness ==
    /\ cout # None
    /\ Cardinality(SurvivingNumbers) = 12
    /\ Len(cin.holes) = 12
    /\ Len(cout.holes) = 9
    /\ RetainedNumbers = SmallestOf(SurvivingNumbers, 9)

\* C20: after cleanup the hole numbers are unique and are exactly 1..9 or
\* exactly 1..18, in this order.
C20_HolesOneToNineOrEighteen ==
    cout # None
       => \/ [i \in 1..Len(cout.holes) |-> cout.holes[i].holeNumber] = [i \in 1..9 |-> i]
          \/ [i \in 1..Len(cout.holes) |-> cout.holes[i].holeNumber] = [i \in 1..18 |-> i]

(***************************************************************************)
(* Completion order of the strategies.                                     *)
(***************************************************************************)
\* The candidate preferred to every other one; base confidences differ, so
\* there is one only.
PreferredCandidate ==
    CHOOSE r \in Candidates :
       \A q \in Candidates \ {r} :
          \/ q.validationScore < r.validationScore
          \/ (q.validationScore = r.validationScore /\ q.confidence < r.confidence)

\* C28: the strategies settle in any order and only read the layout; the
\* scorecard analyzeWithAdaptiveOcr returns is fixed by the three outcomes
\* alone, whatever the order in which the strategies completed.
C28_CompletionOrderIrrelevant ==
    /\ (pc \in {"join", "returned"} => layout # None)
    /\ (pc = "returned"
          => /\ Len(order) = Cardinality(Strategies)
             /\ {order[i] : i \in 1..Len(order)} = Strategies
             /\ returned = PreferredCandidate.scorecard)
    /\ (pc = "failed" /\ order # <<>>
          => {order[i] : i \in 1..Len(order)} = Strategies /\ Candidates = {})

\* C28 witness: the strategies completed in the reverse of the order in which
\* they were started, all three with a usable scorecard, and the scorecard of
\* the one that completed last was returned.
C28_Witness ==
    /\ pc = "returned"
    /\ order = <<"hybrid", "textract-first", "vision-first">>
    /\ Cardinality(Candidates) = 3
    /\ returned.origin = "vision-first"

(***************************************************************************)
(* SpecLimit: the in-memory rate limiter of the middleware.                *)
(* rateLimitMap holds one {count, resetTime} record per client key.  One   *)
(* key is followed individually; of all other keys only the number of     *)
(* their entries matters to the code (rateLimitMap.size), so they are kept *)
(* as a count.  Requests that the middleware answers before it reaches     *)
(* checkRateLimit (paths outside /api/, cross-origin requests answered     *)
(* with 403) touch nothing and are not modelled.                           *)
(***************************************************************************)
WindowMs == 900000   \* 15 * 60 * 1000
MaxRequests == 50
MaxMapSize == 10000
MaxEnvSteps == 4

ClientKeys == {"ratelimit:10.0.0.1"}
AdvanceBy == {1, WindowMs - 1, WindowMs}
CrowdSizes == {MaxMapSize \div 2}

MapSize == lothers + Cardinality({k \in ClientKeys : lmap[k] # None})

\* checkRateLimit(key) at time lnow: the response and the map afterwards.
\* The record is read before the size test, so after a clear() the
\* increment goes to a record that is no longer in the map.
CheckRateLimit(key) ==
    LET record == lmap[key]
        cleared == MapSize > MaxMapSize
        map1 == IF cleared THEN [k \in ClientKeys |-> None] ELSE lmap
        others1 == IF cleared THEN 0 ELSE lothers
    IN  IF record = None \/ lnow > record.resetTime
        THEN [allowed |-> TRUE, remaining |-> MaxRequests - 1,
              map |-> [map1 EXCEPT ![key] = [count |-> 1, resetTime |-> lnow + WindowMs]],
              others |-> others1]
        ELSE IF record.count >= MaxRequests
        THEN [allowed |-> FALSE, remaining |-> 0, map |-> map1, others |-> others1]
        ELSE [allowed |-> TRUE, remaining |-> MaxRequests - (record.count + 1),
              map |-> IF cleared THEN map1
                      ELSE [map1 EXCEPT ![key] = [record EXCEPT !.count = record.count + 1]],
              others |-> others1]

\* The window the client is in, kept apart from rateLimitMap: it starts with
\* the first allowed request and ends when WindowMs have passed.
Allow(h) ==
    IF h = None \/ lnow > h.start + WindowMs
    THEN [start |-> lnow, allowed |-> 1]
    ELSE [h EXCEPT !.allowed = h.allowed + 1]

\* middleware for an /api/ request under one of the followed keys.
Middleware(key) ==
    /\ \E r \in {CheckRateLimit(key)} :
          /\ lmap' = r.map
          /\ lothers' = r.others
          /\ lresp' = [key |-> key, status |-> IF r.allowed THEN 200 ELSE 429,
                       remaining |-> r.remaining]
          /\ lhist' = IF r.allowed THEN [lhist EXCEPT ![key] = Allow(lhist[key])] ELSE lhist
    /\ UNCHANGED <<gridVars, pageVars, runnerVars, notationVars, tableVars, validateVars, cleanupVars, lnow, lsteps>>

\* n first requests under n keys not seen before: each finds no record, the
\* first one that finds more than MaxMapSize entries clears the map.
CrowdRequests(n) ==
    /\ lsteps < MaxEnvSteps
    /\ lsteps' = lsteps + 1
    /\ \E before \in {IF MaxMapSize + 1 > MapSize THEN MaxMapSize + 1 - MapSize ELSE 0} :
          IF n <= before
          THEN /\ lothers' = lothers + n
               /\ lmap' = lmap
          ELSE /\ lothers' = n - before
               /\ lmap' = [k \in ClientKeys |-> None]
    /\ UNCHANGED <<gridVars, pageVars, runnerVars, notationVars, tableVars, validateVars, cleanupVars, lnow, lhist, lresp>>

\* Date.now() moves on.
AdvanceClock(d) ==
    /\ lsteps < MaxEnvSteps
    /\ lsteps' = lsteps + 1
    /\ lnow' = lnow + d
    /\ UNCHANGED <<gridVars, pageVars, runnerVars, notationVars, tableVars, validateVars, cleanupVars, lmap, lothers, lhist, lresp>>

InitLimit ==
    /\ RunnerIdle
    /\ NotationIdle
    /\ TableIdle
    /\ ValidateIdle
    /\ CleanupIdle
    /\ lmap = [k \in ClientKeys |-> None]
    /\ lothers = 0
    /\ lnow = 0
    /\ lhist = [k \in ClientKeys |-> None]
    /\ lresp = None
    /\ lsteps = 0
    /\ PageIdle
    /\ GridIdle

NextLimit ==
    \/ \E key \in ClientKeys : Middleware(key)
    \/ \E n \in CrowdSizes : CrowdRequests(n)
    \/ \E d \in AdvanceBy : AdvanceClock(d)

SpecLimit == InitLimit /\ [][NextLimit]_vars

\* C21: within one window of WindowMs a client key is allowed at most
\* MaxRequests requests, whatever other keys do in between, and the
\* limiter's window for the key is the one that began with the key's first
\* allowed request: it is replaced only after its reset time has passed.
C21_AtMostFiftyPerWindow ==
    \A k \in ClientKeys :
       lhist[k] # None =>
          /\ lhist[k].allowed <= MaxRequests
          /\ (lmap[k] # None => lmap[k].resetTime = lhist[k].start + WindowMs)

\* C30: cleanupExtractedData is idempotent: applied to a scorecard that it
\* returned, it returns that scorecard again, with the same holes, players
\* and scores.
C30_CleanupIdempotent ==
    cagain # None => cagain = cout
C30_Witness ==
    /\ cagain # None
    /\ cagain = cout
    /\ Len(cout.holes) = 9
    /\ Len(cin.holes) > 18
    /\ Len(cout.players[1].scores) = 9

\* C22: in analyzeWithHybridOcr the handwriting service is called only when
\* the structural result holds at least one null score: whenever the call to
\* enhanceWithVision has returned, some score of the structural result is null.
C22_VisionOnlyForGaps ==
    enhanced # None
       => \E p \in 1..Len(structure.players) :
             \E h \in 1..Len(structure.players[p].scores) :
                structure.players[p].scores[h].score = NullScore

(***************************************************************************)
(* SpecPage: the scorecard held by the page and its editor.                *)
(* The page receives the scorecard from POST /api/scorecards, the editor   *)
(* changes scores and names, the page merges the players of a second       *)
(* upload.  The editor's copy and the page's copy are kept equal by the    *)
(* editor's effects and are one variable here.                             *)
(***************************************************************************)
MaxOps == 3

\* The totals with the back nine counted from hole 9 on.
CalculatePlayerTotalsBackFromNine(player) ==
    LET Counts(e, lo, hi) == e.score # NullScore /\ e.holeNumber >= lo /\ e.holeNumber <= hi
        Front(e) == Counts(e, 1, 9)
        Back(e) == Counts(e, 9, 18)
        Values(q) == [i \in 1..Len(q) |-> q[i].score[1]]
        Totals(front, back) ==
            [name |-> player.name, scores |-> player.scores,
             frontNine |-> IF Len(front) > 0 THEN Some(SumSeq(Values(front))) ELSE <<>>,
             backNine |-> IF Len(back) > 0 THEN Some(SumSeq(Values(back))) ELSE <<>>,
             total |-> IF Len(front) > 0 \/ Len(back) > 0
                       THEN Some(SumSeq(Values(front)) + SumSeq(Values(back))) ELSE <<>>]
    IN TheOnly({Totals(f, b) : f \in {SelectSeq(player.scores, Front)},
                                b \in {SelectSeq(player.scores, Back)}})

\* lib/golfScoring.ts calculatePlayerTotals; undefined is <<>>.
CalculatePlayerTotals(player) ==
    LET Counts(e, lo, hi) == e.score # NullScore /\ e.holeNumber >= lo /\ e.holeNumber <= hi
        Front(e) == Counts(e, 1, 9)
        Back(e) == Counts(e, 10, 18)
        Values(q) == [i \in 1..Len(q) |-> q[i].score[1]]
        Totals(front, back) ==
            [name |-> player.name, scores |-> player.scores,
             frontNine |-> IF Len(front) > 0 THEN Some(SumSeq(Values(front))) ELSE <<>>,
             backNine |-> IF Len(back) > 0 THEN Some(SumSeq(Values(back))) ELSE <<>>,
             total |-> IF Len(front) > 0 \/ Len(back) > 0
                       THEN Some(SumSeq(Values(front)) + SumSeq(Values(back))) ELSE <<>>]
    IN TheOnly({Totals(f, b) : f \in {SelectSeq(player.scores, Front)},
                                b \in {SelectSeq(player.scores, Back)}})

\* lib/mergeScorecards.ts validateScorecardCompatibility
ValidateScorecardCompatibility(existingScorecard, newScorecard) ==
    IF Len(existingScorecard.holes) # Len(newScorecard.holes)
    THEN [isValid |-> FALSE, error |-> "Hole count mismatch"]
    ELSE LET NewHole(i) ==
                 LET Same(h) == h.holeNumber = existingScorecard.holes[i].holeNumber
                 IN FirstOrNone(SelectSeq(newScorecard.holes, Same))
             missing == {i \in 1..Len(existingScorecard.holes) : NewHole(i) = None}
             differs == {i \in 1..Len(existingScorecard.holes) :
                           NewHole(i) # None /\ NewHole(i).par # existingScorecard.holes[i].par}
             bad == missing \cup differs
             first == CHOOSE i \in bad : \A j \in bad : i <= j
         IN IF bad = {} THEN [isValid |-> TRUE]
            ELSE IF first \in missing THEN [isValid |-> FALSE, error |-> "Hole not found"]
            ELSE [isValid |-> FALSE, error |-> "Par mismatch"]

\* The players of the new scorecard that the merge takes for new.
NewPlayersOf(existingScorecard, newScorecard) ==
    LET existingPlayerNames ==
            {ToLower(existingScorecard.players[i].name) : i \in 1..Len(existingScorecard.players)}
        IsNew(player) == ToLower(player.name) \notin existingPlayerNames
    IN SelectSeq(newScorecard.players, IsNew)

\* The merge comparing the names as they are written.
MergePlayersExactNames(existingScorecard, newScorecard) ==
    LET existingPlayerNames ==
            {existingScorecard.players[i].name : i \in 1..Len(existingScorecard.players)}
        IsNew(player) == player.name \notin existingPlayerNames
        Merged(validation, newPlayers) ==
            IF ~validation.isValid THEN [ok |-> FALSE, error |-> validation.error]
            ELSE IF Len(newPlayers) = 0 THEN [ok |-> TRUE, scorecard |-> existingScorecard]
            ELSE [ok |-> TRUE,
                  scorecard |-> [existingScorecard EXCEPT
                                    !.players = existingScorecard.players \o newPlayers]]
    IN TheOnly({Merged(v, n) :
                   v \in {ValidateScorecardCompatibility(existingScorecard, newScorecard)},
                   n \in {SelectSeq(newScorecard.players, IsNew)}})

\* lib/mergeScorecards.ts mergePlayers: the merged scorecard, or the error thrown.
MergePlayers(existingScorecard, newScorecard) ==
    LET Merged(validation, newPlayers) ==
            IF ~validation.isValid THEN [ok |-> FALSE, error |-> validation.error]
            ELSE IF Len(newPlayers) = 0 THEN [ok |-> TRUE, scorecard |-> existingScorecard]
            ELSE [ok |-> TRUE,
                  scorecard |-> [existingScorecard EXCEPT
                                    !.players = existingScorecard.players \o newPlayers]]
    IN TheOnly({Merged(v, n) :
                   v \in {ValidateScorecardCompatibility(existingScorecard, newScorecard)},
                   n \in {NewPlayersOf(existingScorecard, newScorecard)}})

\* POST /api/scorecards: the totals are added to the extracted scorecard.
WithTotals(extracted) ==
    [extracted EXCEPT !.players =
        [i \in 1..Len(extracted.players) |-> CalculatePlayerTotals(extracted.players[i])]]

\* The 18 holes of the course, and the same with another par on hole 3.
CourseHoles == [i \in 1..18 |-> [holeNumber |-> i, par |-> 3 + (i % 3)]]
OtherParHoles == [CourseHoles EXCEPT ![3].par = 5]

\* A player's entries: a score on the holes 1, 9 and 10, none read elsewhere.
EntriesOf(v1, v9, v10) ==
    [i \in 1..18 |->
        [holeNumber |-> i,
         score |-> IF i = 1 THEN v1 ELSE IF i = 9 THEN v9 ELSE IF i = 10 THEN v10 ELSE NullScore]]
\* The same after cleanupExtractedData dropped the entry of hole 9, whose
\* score was out of range.
WithoutNinth(entries) == SelectSeq(entries, LAMBDA e : e.holeNumber # 9)

ExtractedPlayer(name, scores) == [name |-> name, scores |-> scores]

\* Scorecards analyzeWithHybridOcr returns for the first upload.
FirstUploads ==
    {[holes |-> CourseHoles,
      players |-> <<ExtractedPlayer(Str("Al"), EntriesOf(Some(5), Some(4), NullScore))>>],
     [holes |-> CourseHoles,
      players |-> <<ExtractedPlayer(Str("Al"), EntriesOf(NullScore, NullScore, NullScore)),
                    ExtractedPlayer(Str("Bo"), EntriesOf(Some(5), NullScore, Some(6)))>>],
     [holes |-> CourseHoles,
      players |-> <<ExtractedPlayer(Str("Al"), WithoutNinth(EntriesOf(Some(5), NullScore, Some(3)))),
                    ExtractedPlayer(Str("Bo"), EntriesOf(NullScore, Some(4), NullScore))>>]}

\* Scorecards it returns for the upload of additional players.
SecondUploads ==
    {[holes |-> holes, players |-> players] :
        holes \in {CourseHoles, OtherParHoles, SubSeq(CourseHoles, 1, 9)},
        players \in {<<ExtractedPlayer(Str("AL"), EntriesOf(Some(3), Some(3), Some(3)))>>,
                     <<ExtractedPlayer(Str("Cy"), EntriesOf(Some(3), NullScore, Some(7)))>>,
                     <<ExtractedPlayer(Str("al"), EntriesOf(Some(3), Some(3), Some(3))),
                       ExtractedPlayer(Str("Cy"), EntriesOf(NullScore, NullScore, NullScore))>>}}

\* What a score input hands over (e.target.value of an input of type number).
ScoreInputs == {<<>>, Str("5"), Str("20"), Str("21"), Str("0"), Str("2.5")}
NameInputs == {Str("Bo"), Str("Al "), Str("  "), Str("Cy")}
EditedHoles == {9, 10}

\* page: handleAnalysisComplete with the response of POST /api/scorecards.
HandleAnalysisComplete(extracted) ==
    /\ ecard = None
    /\ ecard' = WithTotals(extracted)
    /\ elast' = [op |-> "analysis"]
    /\ UNCHANGED <<gridVars, runnerVars, notationVars, tableVars, validateVars, cleanupVars, limitVars, mergeError, eops>>

\* editor: handleScoreChange(player.name, hole.holeNumber, e.target.value)
\* from the input of row p.
HandleScoreChange(p, holeNumber, newScore) ==
    /\ ecard # None
    /\ eops < MaxOps
    /\ eops' = eops + 1
    /\ p \in 1..Len(ecard.players)
    /\ elast' = [op |-> "score", row |-> p, holeNumber |-> holeNumber, entry |-> newScore,
                 before |-> ecard]
    /\ \E playerName \in {ecard.players[p].name}, parsed \in {ParseInt(newScore)} :
          IF newScore # <<>> /\ (parsed.nan \/ parsed.val < 1 \/ parsed.val > 20)
          THEN ecard' = ecard
          ELSE \E scoreValue \in {IF newScore = <<>> THEN NullScore ELSE Some(parsed.val)} :
                  LET Updated(player) ==
                         IF player.name = playerName
                         THEN [player EXCEPT !.scores =
                                 [i \in 1..Len(player.scores) |->
                                    IF player.scores[i].holeNumber = holeNumber
                                    THEN [player.scores[i] EXCEPT !.score = scoreValue]
                                    ELSE player.scores[i]]]
                         ELSE player
                  IN ecard' = [ecard EXCEPT !.players =
                                 [i \in 1..Len(ecard.players) |->
                                    CalculatePlayerTotals(Updated(ecard.players[i]))]]
    /\ UNCHANGED <<gridVars, runnerVars, notationVars, tableVars, validateVars, cleanupVars, limitVars, mergeError>>

\* editor: handlePlayerNameChange(player.name, e.target.value) from row p.
HandlePlayerNameChange(p, newName) ==
    /\ ecard # None
    /\ eops < MaxOps
    /\ eops' = eops + 1
    /\ p \in 1..Len(ecard.players)
    /\ elast' = [op |-> "name", row |-> p, entry |-> newName, before |-> ecard]
    /\ \E oldName \in {ecard.players[p].name} :
          IF Trim(newName) = <<>>
          THEN ecard' = ecard
          ELSE ecard' = [ecard EXCEPT !.players =
                           [i \in 1..Len(ecard.players) |->
                              IF ecard.players[i].name = oldName
                              THEN [ecard.players[i] EXCEPT !.name = Trim(newName)]
                              ELSE ecard.players[i]]]
    /\ UNCHANGED <<gridVars, runnerVars, notationVars, tableVars, validateVars, cleanupVars, limitVars, mergeError>>

\* page: handlePlayersAdded with the response for the second upload.  The
\* upload form is shown by handleAddPlayersClick, which clears mergeError
\* (<<>> is null).
HandlePlayersAdded(extracted) ==
    /\ ecard # None
    /\ eops < MaxOps
    /\ eops' = eops + 1
    /\ \E newScorecard \in {WithTotals(extracted)} :
          /\ elast' = [op |-> "add", added |-> newScorecard, before |-> ecard]
          /\ \E validation \in {ValidateScorecardCompatibility(ecard, newScorecard)} :
                IF ~validation.isValid
                THEN ecard' = ecard /\ mergeError' = <<validation.error>>
                ELSE IF Len(NewPlayersOf(ecard, newScorecard)) = 0
                THEN ecard' = ecard /\ mergeError' = <<"No new players to add">>
                ELSE \E m \in {MergePlayers(ecard, newScorecard)} :
                        IF m.ok THEN ecard' = m.scorecard /\ mergeError' = <<>>
                        ELSE ecard' = ecard /\ mergeError' = <<m.error>>
    /\ UNCHANGED <<gridVars, runnerVars, notationVars, tableVars, validateVars, cleanupVars, limitVars>>

InitPage ==
    /\ RunnerIdle
    /\ NotationIdle
    /\ TableIdle
    /\ ValidateIdle
    /\ CleanupIdle
    /\ LimitIdle
    /\ ecard = None
    /\ elast = None
    /\ mergeError = <<>>
    /\ eops = 0
    /\ GridIdle

NextPage ==
    \/ \E extracted \in FirstUploads : HandleAnalysisComplete(extracted)
    \/ \E p \in 1..3, holeNumber \in EditedHoles, newScore \in ScoreInputs :
          HandleScoreChange(p, holeNumber, newScore)
    \/ \E p \in 1..3, newName \in NameInputs : HandlePlayerNameChange(p, newName)
    \/ \E extracted \in SecondUploads : HandlePlayersAdded(extracted)

SpecPage == InitPage /\ [][NextPage]_vars

(***************************************************************************)
(* The page's scorecard: what the handlers are to establish.               *)
(***************************************************************************)
\* Same hole count, and every hole of a has in b a hole of its number with
\* its par.
SameCourse(a, b) ==
    /\ Len(a.holes) = Len(b.holes)
    /\ \A i \in 1..Len(a.holes) :
          \E j \in 1..Len(b.holes) :
             b.holes[j].holeNumber = a.holes[i].holeNumber /\ b.holes[j].par = a.holes[i].par

\* The rows of added whose name, letter case aside, no player of before bears.
FreshRows(before, added) ==
    {k \in 1..Len(added.players) :
        \A i \in 1..Len(before.players) :
           ToLower(before.players[i].name) # ToLower(added.players[k].name)}

\* C23: the merge of additional players keeps every existing player
\* unchanged and in place and appends, in their order, exactly the players
\* of the new scorecard whose name differs, letter case aside, from every
\* existing name; when the hole counts or the par of a hole differ an error
\* is raised and the scorecard stays as it was.
C23_MergeAppendsNewPlayersOnly ==
    (elast # None /\ elast.op = "add")
       => IF ~SameCourse(elast.before, elast.added)
          THEN ecard = elast.before /\ mergeError # <<>>
          ELSE LET n == Len(elast.before.players)
                   fresh == FreshRows(elast.before, elast.added)
               IN /\ ecard.holes = elast.before.holes
                  /\ Len(ecard.players) = n + Cardinality(fresh)
                  /\ SubSeq(ecard.players, 1, n) = elast.before.players
                  /\ (fresh # {} => mergeError = <<>>)
                  /\ \A k \in fresh :
                        ecard.players[n + Cardinality({j \in fresh : j <= k})]
                           = elast.added.players[k]
C23_Witness ==
    /\ elast # None /\ elast.op = "add"
    /\ SameCourse(elast.before, elast.added)
    /\ Len(elast.added.players) = 2
    /\ Len(elast.before.players) = 2
    /\ Len(ecard.players) = 3
    /\ ecard.players[3].name = Str("Cy")

\* The scores a player has on the holes lo..hi, null ones left out.
RECURSIVE SumOfScores(_, _)
SumOfScores(scores, idx) ==
    IF idx = {} THEN 0
    ELSE LET i == CHOOSE r \in idx : TRUE
         IN scores[i].score[1] + SumOfScores(scores, idx \ {i})
ScoredRows(player, lo, hi) ==
    {i \in 1..Len(player.scores) :
        player.scores[i].score # NullScore /\ player.scores[i].holeNumber \in lo..hi}

\* C24: for every player of the scorecard, after the first extraction and
\* after every edit, rename and merge, frontNine is the sum of the non-null
\* scores on holes 1-9, backNine that on holes 10-18, each undefined when
\* no hole of its range is scored, and total is their sum, undefined when
\* no hole at all is scored.
C24_TotalsDerivedFromScores ==
    ecard # None
       => \A p \in 1..Len(ecard.players) :
             LET player == ecard.players[p]
                 front == ScoredRows(player, 1, 9)
                 back == ScoredRows(player, 10, 18)
             IN /\ player.frontNine =
                      IF front = {} THEN <<>> ELSE <<SumOfScores(player.scores, front)>>
                /\ player.backNine =
                      IF back = {} THEN <<>> ELSE <<SumOfScores(player.scores, back)>>
                /\ player.total =
                      IF front \cup back = {} THEN <<>>
                      ELSE <<SumOfScores(player.scores, front) + SumOfScores(player.scores, back)>>
C24_Witness ==
    /\ elast # None /\ elast.op = "score"
    /\ elast.holeNumber = 9
    /\ Len(ecard.players) = 2
    /\ elast.before.players[elast.row].frontNine = <<5>>
    /\ ecard.players[elast.row].frontNine = <<25>>
    /\ ecard.players[elast.row].backNine = <<>>
    /\ ecard.players[elast.row].total = <<25>>

\* The score the editor shows for row q and hole h.
ShownScore(card, q, h) ==
    LET IsHole(e) == e.holeNumber = h
        holeScore == FirstOrNone(SelectSeq(card.players[q].scores, IsHole))
    IN IF holeScore = None THEN NullScore ELSE holeScore.score
ValidScoreEntry(entry) ==
    entry = <<>> \/ (AllDigits(entry) /\ DigitsValue(entry) \in 1..20)

\* C29: whatever was renamed and edited before, a score entry that is empty
\* or a whole number from 1 to 20, made in the row of one player for one
\* hole, sets that player's score for that hole to the entry (null when
\* empty) and changes no other score, no name and no hole; any other entry
\* leaves the scorecard as it was.
C29_ScoreEditChangesOneCell ==
    (elast # None /\ elast.op = "score")
       => IF ValidScoreEntry(elast.entry)
          THEN /\ ecard.holes = elast.before.holes
               /\ Len(ecard.players) = Len(elast.before.players)
               /\ \A q \in 1..Len(ecard.players) :
                     /\ ecard.players[q].name = elast.before.players[q].name
                     /\ \A h \in 1..18 :
                           ShownScore(ecard, q, h) =
                              IF q = elast.row /\ h = elast.holeNumber
                              THEN (IF elast.entry = <<>> THEN NullScore
                                    ELSE Some(DigitsValue(elast.entry)))
                              ELSE ShownScore(elast.before, q, h)
          ELSE ecard = elast.before

(***************************************************************************)
(* SpecRows: parseTableToScorecard over grids whose first row carries a    *)
(* player's name or a metadata label.                                      *)
(***************************************************************************)
\* The labels of column 0: a player, and the metadata rows of a scorecard.
LabelChoices ==
    {Str("JAY"), Str("HANDICAP"), Str("Hdcp"), Str("PAR"), Str("Pace of Play"),
     Str("Blue 67"), Str("M: 70.1 Blue"), Str("Mens"), Str("Ladies' Tee")}
\* The texts of a hole cell: blank, scores, values above 18, a yardage, an
\* illegible mark, even par.
RowTokens == {<<>>, Str("5"), Str("19"), Str("25"), Str("x"), Str("E")}

\* The cells of the second row, a row of numbers.
PlainRowTokens == {Str("5"), Str("19"), Str("25")}
LabelledGrids ==
    {<<[label |-> l, cells |-> c1], [label |-> RowLabels[2], cells |-> c2]>> :
        l \in LabelChoices, c1 \in [1..NumHoles -> RowTokens],
        c2 \in [1..NumHoles -> PlainRowTokens]}

InitRows ==
    /\ rows \in LabelledGrids
    /\ TableStart
    /\ RunnerIdle
    /\ NotationIdle
    /\ ValidateIdle
    /\ CleanupIdle
    /\ LimitIdle
    /\ PageIdle
    /\ GridIdle

NextRows == ParseTable

SpecRows == InitRows /\ [][NextRows]_vars

\* The labels of LabelChoices that are metadata keywords: handicap rows, the
\* par row, pace of play, tee colours with a rating, gender qualifiers.
MetadataLabels == LabelChoices \ {Str("JAY")}
\* A score token: a whole number with or without sign, or E.
ScoreTokens == {Str("5"), Str("19"), Str("25"), Str("E")}
\* The hole cells holding a number of at most 18.
LowValueTokens == {Str("5")}

\* The grid row an extracted player was read from.
RowsNamed(name) == {r \in 1..Len(rows) : rows[r].label = name}

\* C27: every extracted player comes from a grid row whose label is no
\* metadata keyword, which holds a valid score token in at least one hole
\* cell, and whose hole values do not all exceed 18.
C27_PlayerRowConditions ==
    (structure # None /\ structure.ok)
       => \A p \in 1..Len(structure.players) :
             \E r \in RowsNamed(structure.players[p].name) :
                /\ rows[r].label \notin MetadataLabels
                /\ \E h \in 1..NumHoles : rows[r].cells[h] \in ScoreTokens
                /\ \E h \in 1..NumHoles : rows[r].cells[h] \in LowValueTokens
C27_Witness ==
    /\ structure # None /\ structure.ok
    /\ Len(structure.players) = 1
    /\ structure.players[1].name = Str("JAY")
    /\ rows[1].cells = <<Str("25"), Str("5")>>
    /\ rows[2].cells = <<Str("19"), Str("25")>>

(***************************************************************************)
(* SpecGrid: lib/textractOcr.ts parseTableToScorecard, the search for the  *)
(* hole columns and for the par row.  A grid is a sequence of rows, a row  *)
(* a sequence of cell texts.  Rows and columns are counted from 1; 0       *)
(* stands for the code's -1 (not found).                                   *)
(***************************************************************************)
HoleSearchRows == 5
MetadataSkipRows == 5
ParAnchorRows == 15
ParLabelColumns == 3
ParSearchSpan == 8
DefaultPar == 4

Min(a, b) == IF a < b THEN a ELSE b
LeastOf(S) == IF S = {} THEN 0 ELSE CHOOSE x \in S : \A y \in S : x <= y

\* The header cells STEP 1 passes over: summary and name columns, and cells
\* of one to three letters.
SkippedHeaderCell(cell) ==
    \/ cell \in {Str("out"), Str("in"), Str("total"), Str("front 9"), Str("back 9"),
                 Str("front"), Str("back"), Str("player"), Str("players"), Str("name"),
                 Str("initials")}
    \/ (Len(cell) \in 1..3 /\ \A i \in 1..Len(cell) : IsLower(cell[i]) \/ IsUpper(cell[i]))

\* STEP 1, one row: the columns whose cell reads as a number from 1 to 18.
PotentialHoles(row) ==
    LET Eligible(c) ==
            \E cell \in {ToLower(Trim(row[c]))} :
               /\ ~SkippedHeaderCell(cell)
               /\ \E value \in {ParseInt(cell)} :
                     ~value.nan /\ value.val >= 1 /\ value.val <= 18
        cols == SelectSeq([c \in 1..Len(row) |-> c], Eligible)
        Valued(cs) ==
            [k \in 1..Len(cs) |-> [value |-> ParseInt(ToLower(Trim(row[cs[k]]))).val, idx |-> cs[k]]]
    IN TheOnly({Valued(cs) : cs \in {cols}})

\* The test for a hole row that accepts any number of holes.
LooksLikeHolesAnyCount(potentialHoles) ==
    /\ Len(potentialHoles) >= 1
    /\ potentialHoles[1].value = 1
    /\ \A k \in 1..Len(potentialHoles) : potentialHoles[k].value = k
\* 8-9 or 17-18 values, sequential from 1.
LooksLikeHoles(potentialHoles) ==
    /\ \/ (Len(potentialHoles) >= 8 /\ Len(potentialHoles) <= 9)
       \/ (Len(potentialHoles) >= 17 /\ Len(potentialHoles) <= 18)
    /\ potentialHoles[1].value = 1
    /\ \A k \in 1..Len(potentialHoles) : potentialHoles[k].value = k

\* STEP 1: the first of the first rows that looks like hole numbers.
FindHoleRow(rws) ==
    LeastOf({i \in 1..Min(Len(rws), HoleSearchRows) :
                \E potentialHoles \in {PotentialHoles(rws[i])} : LooksLikeHoles(potentialHoles)})

\* `label.includes('par') || /men['s]*\s*par/i.test(label)` on the lower-cased
\* label: the pattern needs the letters par, so the first test decides.
HasParLabel(cell) == Includes(ToLower(cell), Str("par"))

\* STEP 2, one row: the column of the par label among the first columns.
ParLabelCol(row) ==
    LeastOf({c \in 1..Min(ParLabelColumns, Len(row)) : HasParLabel(row[c])})
\* The columns after the label whose cell reads as 3, 4 or 5.
PotentialParColumns(row) ==
    LET After(parLabelCol) ==
            LET IsPar(c) ==
                    /\ c > parLabelCol
                    /\ \E value \in {ParseInt(Trim(row[c]))} :
                          ~value.nan /\ value.val >= 3 /\ value.val <= 5
            IN SelectSeq([c \in 1..Len(row) |-> c], IsPar)
    IN TheOnly({After(l) : l \in {ParLabelCol(row)}})
IsParAnchor(row) ==
    /\ ParLabelCol(row) # 0
    /\ \E count \in {Len(PotentialParColumns(row))} :
          (count >= 8 /\ count <= 9) \/ (count >= 17 /\ count <= 18)
\* STEP 2: the first par-labelled row with enough par values.
FindParAnchor(rws) ==
    LeastOf({i \in 1..Min(Len(rws), ParAnchorRows) : IsParAnchor(rws[i])})

\* STEP 3: the par row around the hole row: the row before it, else the
\* first par-labelled row r with holeRowIndex < r < holeRowIndex + 8 in the
\* code's counting.
FindParRowAround(rws, holeRow) ==
    IF holeRow > 1 /\ HasParLabel(rws[holeRow - 1][1]) THEN holeRow - 1
    ELSE LeastOf({r \in (holeRow + 1)..Min(holeRow + ParSearchSpan - 1, Len(rws)) :
                     HasParLabel(rws[r][1])})

\* The holes array.
BuildHoles(rws, holeColumns, parRow) ==
    [k \in 1..Len(holeColumns) |->
        [holeNumber |-> k,
         par |-> IF parRow = 0 THEN DefaultPar
                 ELSE TheOnly({IF ~parValue.nan /\ parValue.val >= 3 /\ parValue.val <= 5
                               THEN parValue.val ELSE DefaultPar :
                                  parValue \in {ParseInt(Trim(rws[parRow][holeColumns[k]]))}})]]

\* startPlayerRow
StartPlayerRow(rws, holeRow) ==
    IF holeRow = 0 THEN 1
    ELSE LET Meta(r) == \/ Includes(ToLower(rws[r][1]), Str("par"))
                        \/ Includes(ToLower(rws[r][1]), Str("hdcp"))
                        \/ Includes(ToLower(rws[r][1]), Str("yardage"))
             skipped == {r \in (holeRow + 1)..Min(holeRow + MetadataSkipRows - 1, Len(rws)) : Meta(r)}
         IN IF skipped = {} THEN holeRow + 1
            ELSE (CHOOSE r \in skipped : \A q \in skipped : q <= r) + 1

\* The rows from startPlayerRow on, as label and hole cells.  In the grids of
\* SpecGrid the first hole column is the grid's second column.
CandidateRows(rws, holeColumns, start) ==
    [k \in 1..(Len(rws) + 1 - start) |->
        [label |-> rws[start + k - 1][1],
         cells |-> [h \in 1..Len(holeColumns) |-> rws[start + k - 1][holeColumns[h]]]]]

\* The players with at least one score, converted with the pars found.
GridPlayers(candidates, holes) ==
    LET Converted(pd, style) ==
            [i \in 1..Len(pd) |->
                [name |-> pd[i].name,
                 scores |-> [h \in 1..Len(pd[i].rawScores) |->
                               [holeNumber |-> h,
                                score |-> ConvertCell(style, pd[i].rawScores[h], holes[h].par)]]]]
    IN TheOnly({SelectSeq(Converted(pd, ScorecardNotation(pd)), HasValidScores) :
                   pd \in {PlayerData(candidates)}})

\* parseTableToScorecard: what was found, and the scorecard or the error.
ParseTableToScorecard(rws) ==
    LET Found(holeRow, anchor) ==
            LET holeColumns ==
                    IF holeRow # 0
                    THEN TheOnly({[k \in 1..Len(ph) |-> ph[k].idx] :
                                     ph \in {PotentialHoles(rws[holeRow])}})
                    ELSE IF anchor # 0 THEN PotentialParColumns(rws[anchor])
                    ELSE <<>>
                parRow == IF holeRow # 0 THEN FindParRowAround(rws, holeRow) ELSE anchor
            IN [holeRowIndex |-> holeRow, parRowIndex |-> parRow, holeColumns |-> holeColumns]
        Result(f) ==
            IF Len(f.holeColumns) = 0
            THEN [ok |-> FALSE, found |-> f,
                  error |-> "Could not identify hole numbers or par row in scorecard table"]
            ELSE LET Built(holes) ==
                        LET Returned(players) ==
                                IF Len(players) = 0
                                THEN [ok |-> FALSE, found |-> f, holes |-> holes,
                                      error |-> "Could not extract any player scores from table"]
                                ELSE [ok |-> TRUE, found |-> f, holes |-> holes,
                                      players |-> players]
                        IN TheOnly({Returned(pl) :
                              pl \in {GridPlayers(
                                         CandidateRows(rws, f.holeColumns,
                                                       StartPlayerRow(rws, f.holeRowIndex)),
                                         holes)}})
                 IN TheOnly({Built(hs) : hs \in {BuildHoles(rws, f.holeColumns, f.parRowIndex)}})
    IN TheOnly({Result(f) :
          f \in {TheOnly({Found(h, IF h = 0 THEN FindParAnchor(rws) ELSE 0) :
                             h \in {FindHoleRow(rws)}})}})

\* The decimal numeral of n < 100.
Numeral(n) ==
    IF n < 10 THEN <<DigitChars[n + 1]>>
    ELSE <<DigitChars[(n \div 10) + 1], DigitChars[(n % 10) + 1]>>

MaxLead == 5        \* 0..MaxLead rows of tee yardages lie above the hole row
MaxParDistance == 11 \* a par row lies 1..MaxParDistance rows below the hole row, or nowhere

\* The rows of a scorecard table with n hole columns: the label, the hole
\* cells, the summary cell.
HoleRowOf(n, kind) ==
    <<Str("Hole")>>
       \o [i \in 1..n |-> Numeral(IF kind = "from2" THEN i + 1
                                  ELSE IF kind = "gap" /\ i >= 3 THEN i + 1 ELSE i)]
       \o <<Str("Out")>>
ParRowOf(n, label, kind) ==
    <<label>>
       \o [i \in 1..n |-> IF kind = "fives" THEN Str("5")
                          ELSE IF kind = "marked" /\ i = n THEN Str("x")
                          ELSE Numeral(3 + (i % 3))]
       \o <<Str("36")>>
YardageRow(n) == <<Str("Blue 67")>> \o [i \in 1..n |-> Str("350")] \o <<Str("3200")>>
PlayerRow(n) == <<Str("JAY")>> \o [i \in 1..n |-> IF i = 2 THEN <<>> ELSE Str("4")] \o <<Str("40")>>
Repeat(row, k) == [i \in 1..k |-> row]

HoleCountChoices == {7, 8, 9, 17, 18}
HoleRowKinds == {"seq", "from2", "gap", "gapseq", "none"}
ParRowKinds == {"pars", "marked"}

\* lead yardage rows, a par row or not, the hole row(s), yardage rows down
\* to a par row (and a second one, all fives, below it) or none, a player
\* row or not.
GridOf(n, lead, parBefore, holeKind, parDistance, parKind, withPlayer) ==
    Repeat(YardageRow(n), lead)
       \o (IF parBefore THEN <<ParRowOf(n, Str("Men's Par"), "pars")>> ELSE <<>>)
       \o (IF holeKind = "none" THEN <<>>
           ELSE IF holeKind = "gapseq" THEN <<HoleRowOf(n, "gap"), HoleRowOf(n, "seq")>>
           ELSE <<HoleRowOf(n, holeKind)>>)
       \o (IF parDistance = 0 THEN <<>>
           ELSE Repeat(YardageRow(n), parDistance - 1)
                   \o <<ParRowOf(n, Str("PAR"), parKind), ParRowOf(n, Str("Par"), "fives")>>)
       \o (IF withPlayer THEN <<PlayerRow(n)>> ELSE <<YardageRow(n)>>)

\* Every hole count and hole row at every depth, with a par row right below;
\* and nine-hole tables with the par rows at every distance.
CandidateGrids ==
    {GridOf(n, lead, parBefore, holeKind, 1, "pars", TRUE) :
        n \in HoleCountChoices, lead \in 0..MaxLead, parBefore \in BOOLEAN,
        holeKind \in HoleRowKinds}
       \cup {GridOf(9, lead, parBefore, holeKind, parDistance, parKind, withPlayer) :
                lead \in {0, MaxLead}, parBefore \in BOOLEAN, holeKind \in {"seq", "none"},
                parDistance \in 0..MaxParDistance, parKind \in ParRowKinds,
                withPlayer \in BOOLEAN}

\* analyzeWithTextract: parseTableToScorecard on the main table.
ParseGrid ==
    /\ gout = None
    /\ gout' = ParseTableToScorecard(grid)
    /\ UNCHANGED <<runnerVars, notationVars, tableVars, validateVars, cleanupVars, limitVars, pageVars, grid>>

InitGrid ==
    /\ grid \in CandidateGrids
    /\ gout = None
    /\ RunnerIdle
    /\ NotationIdle
    /\ TableIdle
    /\ ValidateIdle
    /\ CleanupIdle
    /\ LimitIdle
    /\ PageIdle

NextGrid == ParseGrid

SpecGrid == InitGrid /\ [][NextGrid]_vars

(***************************************************************************)
(* The table: which rows hold hole numbers and pars.                       *)
(***************************************************************************)
\* The columns of a row whose cell is a whole number within lo..hi.
NumberColumns(row, from, lo, hi) ==
    LET Holds(c) == c >= from /\ AllDigits(row[c]) /\ DigitsValue(row[c]) \in lo..hi
    IN SelectSeq([c \in 1..Len(row) |-> c], Holds)
HoleCounts9Or18 == {8, 9, 17, 18}
\* The first five rows whose numbers from 1 to 18 are 1..N in column order.
HoleNumberRows ==
    {i \in 1..5 :
        /\ i <= Len(grid)
        /\ \E cols \in {NumberColumns(grid[i], 1, 1, 18)} :
              /\ Len(cols) \in HoleCounts9Or18
              /\ \A k \in 1..Len(cols) : DigitsValue(grid[i][cols[k]]) = k}
ParLabelled(cell) == \E i \in 1..(Len(cell) - 2) : ToLower(SubSeq(cell, i, i + 2)) = Str("par")
\* The first fifteen rows labelled par that hold 8-9 or 17-18 pars.
ParAnchorRowsOfGrid ==
    {i \in 1..15 :
        /\ i <= Len(grid)
        /\ ParLabelled(grid[i][1])
        /\ Len(NumberColumns(grid[i], 2, 3, 5)) \in HoleCounts9Or18}

\* C25: the hole columns are those of the first of the first five rows
\* whose numbers are exactly 1..N in column order, N one of 8, 9, 17, 18;
\* only without such a row the first par-labelled row of the first fifteen
\* with 8-9 or 17-18 values from 3 to 5 is the anchor: its columns become
\* the holes 1..N and the row the par row; with neither, or when no player
\* row qualifies, an error is raised and no scorecard returned.
C25_HoleColumnsInFixedOrder ==
    gout # None
       => /\ HoleNumberRows # {}
               => /\ gout.found.holeRowIndex = LeastOf(HoleNumberRows)
                  /\ gout.found.holeColumns =
                        NumberColumns(grid[LeastOf(HoleNumberRows)], 1, 1, 18)
          /\ (HoleNumberRows = {} /\ ParAnchorRowsOfGrid # {})
               => /\ gout.found.holeRowIndex = 0
                  /\ gout.found.parRowIndex = LeastOf(ParAnchorRowsOfGrid)
                  /\ gout.found.holeColumns =
                        NumberColumns(grid[LeastOf(ParAnchorRowsOfGrid)], 2, 3, 5)
                  /\ \A k \in 1..Len(gout.holes) :
                        /\ gout.holes[k].holeNumber = k
                        /\ gout.holes[k].par =
                              DigitsValue(grid[gout.found.parRowIndex][gout.found.holeColumns[k]])
          /\ (HoleNumberRows = {} /\ ParAnchorRowsOfGrid = {}) => ~gout.ok
          /\ (\A r \in 1..Len(grid) : grid[r][1] # Str("JAY")) => ~gout.ok
          /\ gout.ok
               => /\ Len(gout.players) >= 1
                  /\ Len(gout.holes) \in HoleCounts9Or18
                  /\ Len(gout.holes) = Len(gout.found.holeColumns)
                  /\ \A k \in 1..Len(gout.holes) : gout.holes[k].holeNumber = k
C25_Witness ==
    /\ gout # None /\ gout.ok
    /\ HoleNumberRows = {}
    /\ Len(grid) >= 7
    /\ grid[6] = HoleRowOf(17, "seq")
    /\ gout.found.parRowIndex = 7
    /\ Len(gout.holes) = 17

\* C26: with a hole row, the par row is the par-labelled row right above
\* it if there is one, else the first par-labelled row among the 8 rows
\* below it (the eighth included); without either every hole has par 4; in
\* all cases every par lies within 3..5.
C26_ParRowSearch ==
    (gout # None /\ gout.found.holeRowIndex # 0)
       => LET h == gout.found.holeRowIndex
              above == h > 1 /\ ParLabelled(grid[h - 1][1])
              below == {r \in (h + 1)..(h + 8) : r <= Len(grid) /\ ParLabelled(grid[r][1])}
          IN /\ gout.found.parRowIndex = IF above THEN h - 1 ELSE LeastOf(below)
             /\ \A k \in 1..Len(gout.holes) :
                   /\ gout.holes[k].par \in 3..5
                   /\ (gout.found.parRowIndex = 0 => gout.holes[k].par = 4)
====
